---- MODULE Spec2Model ----
(***************************************************************************)
(* Model of krill's login session cache                                    *)
(* (src/src/daemon/auth/common/session.rs).                                *)
(*                                                                         *)
(* A token is base64(ciphertext || tag) of the serialized ClientSession.   *)
(* Bytes are numbers 0..255, a token is the sequence of its base64         *)
(* symbols (0..63 for the alphabet, 64 for the pad '=', anything else is   *)
(* a character outside the alphabet).                                      *)
(***************************************************************************)
EXTENDS Integers, Sequences, FiniteSets, TLC

\* ------------------------------------------------------------------ bounds

\* The wall clock runs from 0 to MaxTime seconds.
MaxTime == 2

\* At most MaxIssued distinct tokens are handed out by encode in one run.
MaxIssued == 2

\* Where ClientSession::status is exercised the wall clock runs to MaxClock,
\* sessions start at 0..MaxStart and live 0..MaxLifetime seconds.
MaxClock == 5

MaxStart == 1

MaxLifetime == 4

\* ------------------------------------------------------- program constants

TAG_SIZE == 16

MAX_CACHE_SECS == 30

\* The ttl the unit test configures with with_ttl.
TEST_TTL_SECS == 1

\* ------------------------------------------------------------------ inputs

\* Option::None of expires_in (lifetimes are whole seconds otherwise).
NoneVal == -1

\* A failed read of the wall clock (SystemTime before UNIX_EPOCH).
ClockErr == -1

\* The arguments the callers pass to encode: the two calls of the unit test,
\* which differ in every field.
EncodeInputs ==
    { [id |-> "some id",  attributes |-> <<>>, secrets |-> <<>>, expires_in |-> NoneVal],
      [id |-> "other id", attributes |-> <<[k |-> "some attr key", v |-> "some attr val"]>>,
       secrets |-> <<"some secret">>, expires_in |-> 10] }

\* A login whose lifetime is over within the second it starts in.
ShortLivedInputs ==
    { [id |-> "short id", attributes |-> <<>>, secrets |-> <<>>, expires_in |-> 0] }

\* Symmetric keys, as byte strings: the key the sessions are encoded under,
\* and the keys a client can present a token with.
EncodeKeys == { <<7>> }

Keys == EncodeKeys \cup { <<11>> }

\* The cipher functions a cache can be built with: crypt::encrypt/decrypt
\* (new) or the identity closures of the unit test (with_encrypter,
\* with_decrypter).
Ciphers == {"crypt", "identity"}

\* ----------------------------------------------------------------- results

Ok(v) == [ok |-> TRUE, val |-> <<v>>, err |-> "", msg |-> ""]

Err(kind, msg) == [ok |-> FALSE, val |-> <<>>, err |-> kind, msg |-> msg]

\* The values the operations return besides a session: (), a Token, a usize.
Unit == [unit |-> TRUE]

TokenVal(token) == [token |-> token]

SizeVal(n) == [size |-> n]

\* ------------------------------------------------------------ byte helpers

RECURSIVE SumSeq(_)
SumSeq(s) == IF s = <<>> THEN 0 ELSE Head(s) + SumSeq(Tail(s))

RECURSIVE Concat(_)
Concat(ss) == IF ss = <<>> THEN <<>> ELSE Head(ss) \o Concat(Tail(ss))

\* UTF-8 bytes of the strings the model uses (abbreviated to two bytes).
StrBytes(s) ==
    CASE s = "some id"       -> <<115, 105>>
      [] s = "other id"      -> <<111, 105>>
      [] s = "some attr key" -> <<97, 107>>
      [] s = "some attr val" -> <<97, 118>>
      [] s = "some secret"   -> <<115, 115>>
      [] s = "short id"      -> <<115, 104>>

Strings ==
    {"some id", "other id", "some attr key", "some attr val", "some secret", "short id"}

\* ------------------------------------------------- serde_json (abstracted)
\* The serialization is a byte string framed by '{' (123) and '}' (125) with
\* the five fields in declaration order; strings and collections carry their
\* length.

SerStr(s) == <<Len(StrBytes(s))>> \o StrBytes(s)

\* expires_in left out of the serialization.
SerOptSkipped(d) == <<0>>

SerOpt(d) == IF d = NoneVal THEN <<0>> ELSE <<1, d>>

RECURSIVE SerMap(_)
SerMap(m) == IF m = <<>> THEN <<>>
             ELSE SerStr(Head(m).k) \o SerStr(Head(m).v) \o SerMap(Tail(m))

RECURSIVE SerVec(_)
SerVec(v) == IF v = <<>> THEN <<>> ELSE SerStr(Head(v)) \o SerVec(Tail(v))

to_string(session) ==
    <<123, session.start_time>> \o SerOpt(session.expires_in) \o SerStr(session.id)
      \o <<Len(session.attributes)>> \o SerMap(session.attributes)
      \o <<Len(session.secrets)>> \o SerVec(session.secrets) \o <<125>>

\* A parse is [ok, rest, out]: the bytes still to read and the values read.
PFail == [ok |-> FALSE, rest |-> <<>>, out |-> <<>>]

PStart(bs) == [ok |-> TRUE, rest |-> bs, out |-> <<>>]

PByte(p) ==
    IF p.ok /\ Len(p.rest) >= 1
    THEN [ok |-> TRUE, rest |-> Tail(p.rest), out |-> Append(p.out, p.rest[1])]
    ELSE PFail

\* The string whose bytes are raw, as a set of at most one element.
StrOf(raw) == {s \in Strings : StrBytes(s) = raw}

PStr(p) ==
    IF p.ok /\ Len(p.rest) >= 1 /\ Len(p.rest) >= 1 + p.rest[1]
       /\ StrOf(SubSeq(p.rest, 2, 1 + p.rest[1])) # {}
    THEN [ok |-> TRUE, rest |-> SubSeq(p.rest, 2 + p.rest[1], Len(p.rest)),
          out |-> Append(p.out, CHOOSE s \in StrOf(SubSeq(p.rest, 2, 1 + p.rest[1])) : TRUE)]
    ELSE PFail

POpt(p) ==
    IF p.ok /\ Len(p.rest) >= 1 /\ p.rest[1] = 0
    THEN [ok |-> TRUE, rest |-> Tail(p.rest), out |-> Append(p.out, NoneVal)]
    ELSE IF p.ok /\ Len(p.rest) >= 2 /\ p.rest[1] = 1
    THEN [ok |-> TRUE, rest |-> SubSeq(p.rest, 3, Len(p.rest)), out |-> Append(p.out, p.rest[2])]
    ELSE PFail

\* Puts the last n values read into one sequence.
Group(p, n) ==
    IF ~p.ok THEN PFail
    ELSE [ok |-> TRUE, rest |-> p.rest,
          out |-> Append(SubSeq(p.out, 1, Len(p.out) - n),
                         SubSeq(p.out, Len(p.out) - n + 1, Len(p.out)))]

\* Makes the last two strings read one map entry.
Entry(p) ==
    IF ~p.ok THEN PFail
    ELSE [ok |-> TRUE, rest |-> p.rest,
          out |-> Append(SubSeq(p.out, 1, Len(p.out) - 2),
                         [k |-> p.out[Len(p.out) - 1], v |-> p.out[Len(p.out)]])]

RECURSIVE PEntries(_, _)
PEntries(n, p) == IF n = 0 \/ ~p.ok THEN p ELSE PEntries(n - 1, Entry(PStr(PStr(p))))

RECURSIVE PStrs(_, _)
PStrs(n, p) == IF n = 0 \/ ~p.ok THEN p ELSE PStrs(n - 1, PStr(p))

\* A count followed by that many entries (strings); the count is dropped.
Counted(p) ==
    IF ~p.ok THEN PFail
    ELSE [ok |-> TRUE, rest |-> p.rest, out |-> SubSeq(p.out, 1, Len(p.out) - 1)]

PMap(p) == IF ~p.ok THEN PFail ELSE Group(PEntries(p.out[Len(p.out)], Counted(p)), p.out[Len(p.out)])

PVec(p) == IF ~p.ok THEN PFail ELSE Group(PStrs(p.out[Len(p.out)], Counted(p)), p.out[Len(p.out)])

PSession(p) ==
    IF p.ok /\ p.rest = <<>>
    THEN [ok |-> TRUE, rest |-> <<>>,
          out |-> <<[start_time |-> p.out[1], expires_in |-> p.out[2], id |-> p.out[3],
                     attributes |-> p.out[4], secrets |-> p.out[5]]>>]
    ELSE PFail

\* serde_json::from_slice::<ClientSession>: ok with the session in out[1], or
\* a parse failure.
from_slice(bs) ==
    IF Len(bs) < 2 \/ bs[1] # 123 \/ bs[Len(bs)] # 125 THEN PFail
    ELSE PSession(PVec(PByte(PMap(PByte(PStr(POpt(PByte(PStart(SubSeq(bs, 2, Len(bs) - 1))))))))))

\* ------------------------------------------------------------------ base64
\* base64::encode / base64::decode with the standard alphabet and padding.
\* A symbol is its index in the alphabet; Pad is '='.

Pad == 64

RECURSIVE base64_encode(_)
base64_encode(bs) ==
    IF Len(bs) = 0 THEN <<>>
    ELSE IF Len(bs) = 1 THEN
        << bs[1] \div 4, (bs[1] % 4) * 16, Pad, Pad >>
    ELSE IF Len(bs) = 2 THEN
        << bs[1] \div 4, (bs[1] % 4) * 16 + (bs[2] \div 16), (bs[2] % 16) * 4, Pad >>
    ELSE
        << bs[1] \div 4, (bs[1] % 4) * 16 + (bs[2] \div 16),
           (bs[2] % 16) * 4 + (bs[3] \div 64), bs[3] % 64 >>
          \o base64_encode(SubSeq(bs, 4, Len(bs)))

IsSym(c) == c >= 0 /\ c < 64

\* The bytes of one group of four symbols; <<-1>> when the group is invalid.
\* Padding is only legal in the last group, and the bits a padded group
\* leaves unused must be zero.
DecodeGroup(g, final) ==
    IF IsSym(g[1]) /\ IsSym(g[2]) /\ IsSym(g[3]) /\ IsSym(g[4]) THEN
        << g[1] * 4 + (g[2] \div 16), (g[2] % 16) * 16 + (g[3] \div 4),
           (g[3] % 4) * 64 + g[4] >>
    ELSE IF final /\ IsSym(g[1]) /\ IsSym(g[2]) /\ IsSym(g[3]) /\ g[4] = Pad
            /\ g[3] % 4 = 0 THEN
        << g[1] * 4 + (g[2] \div 16), (g[2] % 16) * 16 + (g[3] \div 4) >>
    ELSE IF final /\ IsSym(g[1]) /\ IsSym(g[2]) /\ g[3] = Pad /\ g[4] = Pad
            /\ g[2] % 16 = 0 THEN
        << g[1] * 4 + (g[2] \div 16) >>
    ELSE << -1 >>

\* The groups of four symbols of cs, decoded one by one.
DecodeGroups(cs) ==
    [k \in 1..(Len(cs) \div 4) |->
        DecodeGroup(SubSeq(cs, 4 * k - 3, 4 * k), k = Len(cs) \div 4)]

AllGroups(gs) ==
    IF \E k \in DOMAIN gs : gs[k] = << -1 >> THEN PFail
    ELSE [ok |-> TRUE, rest |-> <<>>, out |-> <<Concat(gs)>>]

\* Ok(bytes), in out[1], or a DecodeError.
base64_decode(cs) ==
    IF Len(cs) % 4 # 0 THEN PFail ELSE AllGroups(DecodeGroups(cs))

\* ------------------------------------------------------------ cipher (AEAD)
\* crypt::encrypt and crypt::decrypt: the ciphertext is as long as the
\* plaintext, the 16 byte tag authenticates the ciphertext under the key,
\* and decrypt fails on any tag or key mismatch.

KeyByte(key) == SumSeq(key) % 256

crypt_tag(key, ct) ==
    [i \in 1..TAG_SIZE |-> (KeyByte(key) * 31 + SumSeq(ct) * 7 + i) % 256]

crypt_encrypt(key, pt) ==
    LET ct == [i \in 1..Len(pt) |-> (pt[i] + KeyByte(key)) % 256]
    IN Ok([bytes |-> ct, tag |-> crypt_tag(key, ct)])

crypt_decrypt(key, ct, tag) ==
    IF tag # crypt_tag(key, ct)
    THEN Err("ApiInvalidCredentials", "decryption failed")
    ELSE Ok([i \in 1..Len(ct) |-> (ct[i] + 256 - KeyByte(key)) % 256])

\* The closures of the unit test: |_, v, _| Ok(v.to_vec()); the tag buffer
\* keeps the zeroes encode initialised it with.
identity_encrypt(key, pt) == Ok([bytes |-> pt, tag |-> [i \in 1..TAG_SIZE |-> 0]])

identity_decrypt(key, ct, tag) == Ok(ct)

\* (self.encrypt_fn)(key, unencrypted_bytes, &mut tag)
call_encrypt(fn, key, pt) ==
    IF fn = "crypt" THEN crypt_encrypt(key, pt) ELSE identity_encrypt(key, pt)

\* (self.decrypt_fn)(key, encrypted_bytes, tag_bytes)
call_decrypt(fn, key, ct, tag) ==
    IF fn = "crypt" THEN crypt_decrypt(key, ct, tag) ELSE identity_decrypt(key, ct, tag)

\* ------------------------------------------------------------------- state

VARIABLES
    cache,        \* LoginSessionCache.cache: Token -> CachedSession
    ttl_secs,     \* LoginSessionCache.ttl_secs
    encrypt_fn,   \* LoginSessionCache.encrypt_fn
    decrypt_fn,   \* LoginSessionCache.decrypt_fn
    now,          \* the wall clock, seconds since the epoch
    issued,       \* history: token -> the arguments and clock value of the encode that returned it
    last,         \* history: the operation that ran last, its arguments, result and steps
    poisoned,     \* the RwLock around cache is poisoned (a thread panicked holding it)
    attestations, \* AspaDefinitions.attestations: AspaCustomer -> AspaDefinition
    objects,      \* AspaObjects.0: AspaCustomer -> AspaInfo
    aspa_last,    \* history: the ASPA operation that ran last, its arguments and result
    login,        \* the ClientSession a caller holds and asks the status of
    threads       \* the callers' threads: the operation each is in, its position and the lock it holds

\* The state of the ASPA definitions and objects of a CA.
aspa_vars == <<attestations, objects, aspa_last>>

vars == <<cache, ttl_secs, encrypt_fn, decrypt_fn, now, issued, last, poisoned, aspa_vars, login, threads>>

\* Tokens a client can present that no encode produced, as strings.
ShortString8 == base64_encode([i \in 1..8 |-> 0])

ShortString16 == base64_encode([i \in 1..TAG_SIZE |-> 0])

LongString17 == base64_encode([i \in 1..(TAG_SIZE + 1) |-> 0])

MalformedString == <<0, 0, 0>>

\* Authentic under the first key, but the plaintext is no session record.
GarbageString ==
    LET e == crypt_encrypt(<<7>>, <<1, 2, 3>>).val[1] IN base64_encode(e.bytes \o e.tag)

\* encode from the encrypted bytes on: lines 193-195.
AfterEncrypt(e, session) ==
    IF ~e.ok THEN [result |-> e, session |-> <<>>]
    ELSE [result |-> Ok(base64_encode(e.val[1].bytes \o e.val[1].tag)),
          session |-> <<session>>]

\* encode from the serialization on: lines 187-195.
Seal(session, key, fn) == AfterEncrypt(call_encrypt(fn, key, to_string(session)), session)

\* The session encode builds and its base64 string: lines 177-195.
EncodeString(in, key, t, fn) ==
    Seal([start_time |-> t, expires_in |-> in.expires_in, id |-> in.id,
          attributes |-> in.attributes, secrets |-> in.secrets], key, fn)

EncodeArgs == (EncodeInputs \cup ShortLivedInputs) \X EncodeKeys \X (0..MaxTime) \X Ciphers

RECURSIVE SetToSeq(_)
SetToSeq(S) ==
    IF S = {} THEN <<>>
    ELSE LET x == CHOOSE x \in S : TRUE IN <<x>> \o SetToSeq(S \ {x})

AllStrings ==
    {ShortString8, ShortString16, LongString17, MalformedString, GarbageString}
      \cup {EncodeString(a[1], a[2], a[3], a[4]).result.val[1] : a \in EncodeArgs}

\* A Token is kept as the index of its string in this list of all the
\* strings of the model; two tokens are equal exactly when their strings are.
TokenStrings == SetToSeq(AllStrings)

\* Token::from(String)
TokenFrom(str) == CHOOSE i \in 1..Len(TokenStrings) : TokenStrings[i] = str

\* token.as_ref().as_bytes()
as_bytes(token) == TokenStrings[token]

\* The string of a result replaced by its Token.
WithToken(r) ==
    [result |-> IF r.result.ok THEN Ok(TokenVal(TokenFrom(r.result.val[1]))) ELSE r.result,
     session |-> r.session]

\* EncodeString followed by Token::from, tabulated over the arguments the
\* model uses.
EncodeTable ==
    [a \in EncodeArgs |-> WithToken(EncodeString(a[1], a[2], a[3], a[4]))] @@ <<>>

ShortToken8 == TokenFrom(ShortString8)

ShortToken16 == TokenFrom(ShortString16)

LongToken17 == TokenFrom(LongString17)

MalformedToken == TokenFrom(MalformedString)

GarbageToken == TokenFrom(GarbageString)

ForgedTokens == {ShortToken8, ShortToken16, LongToken17, MalformedToken, GarbageToken}

\* Every token of the model.
AllTokens == 1..Len(TokenStrings)

Tokens == DOMAIN issued \cup ForgedTokens

NoToken == 0

NoKey == <<>>

Last(op, token, key, result, trace, T) ==
    [op |-> op, token |-> token, key |-> key, result |-> result, trace |-> trace, T |-> T]

\* ------------------------------------------------------------ private parts

\* What one read of the wall clock can return.
ClockReads == {now, ClockErr}

time_now_secs_since_epoch(clk) ==
    IF clk = ClockErr THEN Err("Custom", "Unable to determine the current time")
    ELSE Ok(clk)

\* A lookup that finds nothing.
lookup_session_miss(c, token) == <<>>

\* Option<ClientSession>: <<session>> or <<>>.
lookup_session(c, token) ==
    IF token \in DOMAIN c THEN <<c[token].session>> ELSE <<>>

\* HashMap::insert
Insert(c, token, item) ==
    [t \in DOMAIN c \cup {token} |-> IF t = token THEN item ELSE c[t]]

\* HashMap::remove
Delete(c, token) == [t \in DOMAIN c \ {token} |-> c[t]]

\* The record stored with the time of the insert as its start_time.
cache_session_restamped(c, token, session, clk, ttl) ==
    IF time_now_secs_since_epoch(clk).ok
    THEN Insert(c, token, [evict_after |-> clk + ttl,
                           session |-> [session EXCEPT !.start_time = clk]])
    ELSE c

\* The entry's eviction time counted from the start of the session.
cache_session_from_start(c, token, session, clk, ttl) ==
    IF time_now_secs_since_epoch(clk).ok
    THEN Insert(c, token, [evict_after |-> session.start_time + ttl, session |-> session])
    ELSE c

cache_session(c, token, session, clk, ttl) ==
    LET t == time_now_secs_since_epoch(clk) IN
    IF t.ok
    THEN Insert(c, token, [evict_after |-> t.val[1] + ttl, session |-> session])
    ELSE c

\* bytes.len() < TAG_SIZE
TooShortStrict(bytes) == Len(bytes) < TAG_SIZE

\* bytes.len() <= TAG_SIZE
TooShort(bytes) == Len(bytes) <= TAG_SIZE

\* The kind of error decode returns when deserialization fails.
DeserializeErrorKind == "Custom"

\* v.evict_after >= now
RetainedInclusive(v, t) == v.evict_after >= t

\* Eviction decided by the session's own lifetime.
RetainedBySessionExpiry(v, t) ==
    v.session.expires_in = NoneVal \/ v.session.start_time + v.session.expires_in > t

\* v.evict_after > now
Retained(v, t) == v.evict_after > t

\* HashMap::retain
Retain(c, t) == [k \in {k \in DOMAIN c : Retained(c[k], t)} |-> c[k]]

\* --------------------------------------------------------------- operations

\* encode up to the insert into the cache: [result, session].
EncodeOutcome(in, key, clk, fn) ==
    IF time_now_secs_since_epoch(clk).ok
    THEN EncodeTable[<<in, key, clk, fn>>]
    ELSE [result |-> time_now_secs_since_epoch(clk), session |-> <<>>]

EncodeStep(r, in, key, clk) ==
    IF r.result.ok
    THEN /\ r.result.val[1].token \in DOMAIN issued \/ Cardinality(DOMAIN issued) < MaxIssued
         /\ cache' = cache_session(cache, r.result.val[1].token, r.session[1], clk, ttl_secs)
         /\ issued' = Insert(issued, r.result.val[1].token,
                             [key |-> key, in |-> in, clock |-> clk])
         /\ last' = Last("encode", r.result.val[1].token, key, r.result,
                         <<"encrypt", "cache_session">>, clk)
    ELSE /\ last' = Last("encode", NoToken, key, r.result, <<>>, clk)
         /\ UNCHANGED <<cache, issued>>

encode(in, key) ==
    /\ \E clk \in ClockReads : EncodeStep(EncodeOutcome(in, key, clk, encrypt_fn), in, key, clk)
    /\ UNCHANGED <<ttl_secs, encrypt_fn, decrypt_fn, now, poisoned, aspa_vars, login, threads>>

\* decode from the deserialization on: lines 222-229.
AfterDeserialize(s) ==
    IF ~s.ok
    THEN [result |-> Err(DeserializeErrorKind, "Unable to deserializing client session"),
          trace |-> <<"lookup", "base64", "decrypt", "from_slice">>]
    ELSE [result |-> Ok(s.out[1]),
          trace |-> <<"lookup", "base64", "decrypt", "from_slice", "cache_session">>]

\* The decrypt function's error replaced by an error of decode's own.
AfterDecryptMapped(d) ==
    IF ~d.ok
    THEN [result |-> Err("Custom", "Unable to decrypt client session"),
          trace |-> <<"lookup", "base64", "decrypt">>]
    ELSE AfterDeserialize(from_slice(d.val[1]))

\* decode from the decryption on: lines 220-229.
AfterDecrypt(d) ==
    IF ~d.ok THEN [result |-> d, trace |-> <<"lookup", "base64", "decrypt">>]
    ELSE AfterDeserialize(from_slice(d.val[1]))

\* decode from the length check on: lines 212-229.
AfterBase64(bytes, key, fn) ==
    IF TooShort(bytes)
    THEN [result |-> Err("ApiInvalidCredentials", "Invalid bearer token: token is too short"),
          trace |-> <<"lookup", "base64">>]
    ELSE AfterDecrypt(call_decrypt(fn, key,
                                   SubSeq(bytes, 1, Len(bytes) - TAG_SIZE),
                                   SubSeq(bytes, Len(bytes) - TAG_SIZE + 1, Len(bytes))))

\* base64::decode(..).map_err(..)?
Base64Checked(b, key, fn) ==
    IF ~b.ok
    THEN [result |-> Err("ApiInvalidCredentials", "Invalid bearer token"),
          trace |-> <<"lookup", "base64">>]
    ELSE AfterBase64(b.out[1], key, fn)

\* decode after a cache miss, on the token's string and up to the insert:
\* [result, trace] (lines 209-225).
SlowPath(str, key, fn) == Base64Checked(base64_decode(str), key, fn)

\* SlowPath, tabulated over the arguments the model uses.
SlowPathTable ==
    [a \in AllStrings \X Keys \X Ciphers |-> SlowPath(a[1], a[2], a[3])] @@ <<>>

\* A failed decode that sweeps the cache on its way out.
MissSweeps(r, c, token, clk, ttl) ==
    [result |-> r.result,
     cache |-> IF r.result.ok THEN cache_session(c, token, r.result.val[1], clk, ttl)
               ELSE Retain(c, clk),
     trace |-> r.trace]

\* decode after a cache miss: the slow path and the insert.
Miss(r, c, token, clk, ttl) ==
    [result |-> r.result,
     cache |-> IF r.result.ok THEN cache_session(c, token, r.result.val[1], clk, ttl) ELSE c,
     trace |-> r.trace]

\* A cache hit that stores the entry again.
DecodeResultRefresh(c, token, key, clk, fn, ttl) ==
    IF lookup_session(c, token) # <<>>
    THEN [result |-> Ok(lookup_session(c, token)[1]),
          cache |-> cache_session(c, token, lookup_session(c, token)[1], clk, ttl),
          trace |-> <<"lookup">>]
    ELSE Miss(SlowPathTable[<<as_bytes(token), key, fn>>], c, token, clk, ttl)

\* decode as a function of the cache: [result, cache, trace].
DecodeResult(c, token, key, clk, fn, ttl) ==
    IF lookup_session(c, token) # <<>>
    THEN [result |-> Ok(lookup_session(c, token)[1]), cache |-> c, trace |-> <<"lookup">>]
    ELSE Miss(SlowPathTable[<<as_bytes(token), key, fn>>], c, token, clk, ttl)

DecodeStep(r, token, key, clk) ==
    /\ cache' = r.cache
    /\ last' = Last("decode", token, key, r.result, r.trace,
                    IF r.trace[Len(r.trace)] = "cache_session" THEN clk ELSE ClockErr)

decode(token, key) ==
    /\ \E clk \in ClockReads :
         DecodeStep(DecodeResult(cache, token, key, clk, decrypt_fn, ttl_secs), token, key, clk)
    /\ UNCHANGED <<ttl_secs, encrypt_fn, decrypt_fn, now, issued, poisoned, aspa_vars, login, threads>>

\* A remove that empties the cache.
remove_clear(token) ==
    /\ cache' = <<>>
    /\ last' = Last("remove", token, NoKey, Ok(Unit), <<>>, ClockErr)
    /\ UNCHANGED <<ttl_secs, encrypt_fn, decrypt_fn, now, issued, poisoned, aspa_vars, login, threads>>

remove(token) ==
    /\ cache' = Delete(cache, token)
    /\ last' = Last("remove", token, NoKey, Ok(Unit), <<>>, ClockErr)
    /\ UNCHANGED <<ttl_secs, encrypt_fn, decrypt_fn, now, issued, poisoned, aspa_vars, login, threads>>

\* A size that counts only the entries not yet due for eviction.
size_live ==
    /\ last' = Last("size", NoToken, NoKey,
                    Ok(SizeVal(Cardinality({t \in DOMAIN cache : cache[t].evict_after > now}))),
                    <<>>, ClockErr)
    /\ UNCHANGED <<cache, ttl_secs, encrypt_fn, decrypt_fn, now, issued, poisoned, aspa_vars, login, threads>>

size ==
    /\ last' = Last("size", NoToken, NoKey, Ok(SizeVal(Cardinality(DOMAIN cache))), <<>>, ClockErr)
    /\ UNCHANGED <<cache, ttl_secs, encrypt_fn, decrypt_fn, now, issued, poisoned, aspa_vars, login, threads>>

sweep ==
    /\ \E clk \in ClockReads :
         LET t == time_now_secs_since_epoch(clk) IN
         IF t.ok
         THEN /\ cache' = Retain(cache, t.val[1])
              /\ last' = Last("sweep", NoToken, NoKey, Ok(Unit), <<>>, clk)
         ELSE /\ cache' = cache
              /\ last' = Last("sweep", NoToken, NoKey, t, <<>>, clk)
    /\ UNCHANGED <<ttl_secs, encrypt_fn, decrypt_fn, now, issued, poisoned, aspa_vars, login, threads>>

\* One second passes.
Tick ==
    /\ now < MaxTime
    /\ now' = now + 1
    /\ last' = Last("tick", NoToken, NoKey, Ok(Unit), <<>>, ClockErr)
    /\ UNCHANGED <<cache, ttl_secs, encrypt_fn, decrypt_fn, issued, poisoned, aspa_vars, login, threads>>

\* The ASPA operation that ran last: its name, its arguments (a record) and
\* its result.
AspaLast(op, arg, result) == [op |-> op, arg |-> arg, result |-> result]

\* AspaDefinitions::default() and AspaObjects::default().
AspaNew ==
    /\ attestations = <<>>
    /\ objects = <<>>
    /\ aspa_last = AspaLast("new", Unit, Ok(Unit))

\* LoginSessionCache::new(), optionally followed by with_ttl and by
\* with_encrypter/with_decrypter with a matching pair of functions.
\* The caller holds no session of interest: a record without a lifetime.
\* The threads that call into the cache: the ones that serve requests, and
\* the one of the background job that sweeps.
Callers == {1, 2}

Sweepers == {3}

Threads == Callers \cup Sweepers

\* A thread outside every operation of the cache. ticket is the thread's place
\* in the queue of a fair lock (0: not queued). raced is history: a
\* remove of the thread's token returned while the thread's decode of it was
\* under way; it stays set, with the token, on the return of an operation
\* that went on to insert the token.
Idle ==
    [op |-> "none", pc |-> "idle", holds |-> "none", token |-> NoToken,
     session |-> <<>>, T |-> ClockErr, raced |-> FALSE, ticket |-> 0]

NoLogin ==
    [start_time |-> 0, expires_in |-> NoneVal, id |-> "", attributes |-> <<>>, secrets |-> <<>>]

Init ==
    /\ poisoned = FALSE
    /\ AspaNew
    /\ login = NoLogin
    /\ threads = [t \in Threads |-> Idle]
    /\ cache = <<>>
    /\ ttl_secs \in {MAX_CACHE_SECS, TEST_TTL_SECS}
    /\ encrypt_fn \in Ciphers
    /\ decrypt_fn = encrypt_fn
    /\ now = 0
    /\ issued = <<>>
    /\ last = Last("new", NoToken, NoKey, Ok(Unit), <<>>, ClockErr)

Next ==
    \/ \E in \in EncodeInputs, key \in EncodeKeys : encode(in, key)
    \/ \E token \in Tokens, key \in Keys : decode(token, key)
    \/ \E token \in DOMAIN issued : remove(token)
    \/ size
    \/ sweep
    \/ Tick

Spec == Init /\ [][Next]_vars

\* ------------------------------------------------------- a poisoned lock
\* The operations when self.cache.read() / self.cache.write() return Err: the
\* lock was poisoned by a thread that panicked while it held the write lock.

\* An encode that reports the poisoned lock to its caller.
encode_poisoned_fails(in, key) ==
    /\ \E clk \in ClockReads :
         last' = Last("encode", NoToken, key,
                      Err("Custom", "Unable to cache decrypted session token"), <<>>, clk)
    /\ UNCHANGED <<cache, ttl_secs, encrypt_fn, decrypt_fn, now, issued, poisoned, aspa_vars, login, threads>>

\* lookup_session logs and returns None (l.145), cache_session logs and
\* stores nothing (l.165): encode still returns the token.
encode_poisoned(in, key) ==
    /\ \E clk \in ClockReads :
         /\ last' = Last("encode",
                         IF EncodeOutcome(in, key, clk, encrypt_fn).result.ok
                         THEN EncodeOutcome(in, key, clk, encrypt_fn).result.val[1].token
                         ELSE NoToken,
                         key, EncodeOutcome(in, key, clk, encrypt_fn).result,
                         IF EncodeOutcome(in, key, clk, encrypt_fn).result.ok
                         THEN <<"encrypt", "cache_session">> ELSE <<>>,
                         clk)
         /\ issued' = IF EncodeOutcome(in, key, clk, encrypt_fn).result.ok
                      THEN Insert(issued, EncodeOutcome(in, key, clk, encrypt_fn).result.val[1].token,
                                  [key |-> key, in |-> in, clock |-> clk])
                      ELSE issued
         /\ EncodeOutcome(in, key, clk, encrypt_fn).result.ok =>
              \/ EncodeOutcome(in, key, clk, encrypt_fn).result.val[1].token \in DOMAIN issued
              \/ Cardinality(DOMAIN issued) < MaxIssued
    /\ UNCHANGED <<cache, ttl_secs, encrypt_fn, decrypt_fn, now, poisoned, aspa_vars, login, threads>>

\* encode whose clock read for start_time succeeds (l.178) and whose clock
\* read inside cache_session fails (l.153): the insert is dropped with a
\* warning (l.163) and the token is returned (l.198).
encode_clock_lost(in, key) ==
    /\ ~poisoned
    /\ EncodeOutcome(in, key, now, encrypt_fn).result.ok
    /\ \/ EncodeOutcome(in, key, now, encrypt_fn).result.val[1].token \in DOMAIN issued
       \/ Cardinality(DOMAIN issued) < MaxIssued
    /\ cache' = cache_session(cache, EncodeOutcome(in, key, now, encrypt_fn).result.val[1].token,
                              EncodeOutcome(in, key, now, encrypt_fn).session[1],
                              ClockErr, ttl_secs)
    /\ issued' = Insert(issued, EncodeOutcome(in, key, now, encrypt_fn).result.val[1].token,
                        [key |-> key, in |-> in, clock |-> now])
    /\ last' = Last("encode", EncodeOutcome(in, key, now, encrypt_fn).result.val[1].token, key,
                    EncodeOutcome(in, key, now, encrypt_fn).result,
                    <<"encrypt", "cache_session", "clock">>, now)
    /\ UNCHANGED <<ttl_secs, encrypt_fn, decrypt_fn, now, poisoned, aspa_vars, login, threads>>

\* The lookup is a miss (l.145) and the insert is dropped (l.165).
decode_poisoned(token, key) ==
    /\ last' = Last("decode", token, key,
                    SlowPathTable[<<as_bytes(token), key, decrypt_fn>>].result,
                    SlowPathTable[<<as_bytes(token), key, decrypt_fn>>].trace, ClockErr)
    /\ UNCHANGED <<cache, ttl_secs, encrypt_fn, decrypt_fn, now, issued, poisoned, aspa_vars, login, threads>>

\* l.237: logs, removes nothing.
remove_poisoned(token) ==
    /\ last' = Last("remove", token, NoKey, Ok(Unit), <<>>, ClockErr)
    /\ UNCHANGED <<cache, ttl_secs, encrypt_fn, decrypt_fn, now, issued, poisoned, aspa_vars, login, threads>>

\* l.244-247: logs and returns 0.
size_poisoned ==
    /\ last' = Last("size", NoToken, NoKey, Ok(SizeVal(0)), <<>>, ClockErr)
    /\ UNCHANGED <<cache, ttl_secs, encrypt_fn, decrypt_fn, now, issued, poisoned, aspa_vars, login, threads>>

\* l.252-255: the error of write() is mapped to Error::Custom and returned
\* before the clock is read; T records what the clock would have returned.
sweep_poisoned ==
    /\ \E clk \in ClockReads :
         last' = Last("sweep", NoToken, NoKey,
                      Err("Custom", "Unable to purge session cache"), <<>>, clk)
    /\ UNCHANGED <<cache, ttl_secs, encrypt_fn, decrypt_fn, now, issued, poisoned, aspa_vars, login, threads>>

\* A thread panics while it holds the write lock.
Poison ==
    /\ ~poisoned
    /\ poisoned' = TRUE
    /\ last' = Last("poison", NoToken, NoKey, Ok(Unit), <<>>, ClockErr)
    /\ UNCHANGED <<cache, ttl_secs, encrypt_fn, decrypt_fn, now, issued, aspa_vars, login, threads>>

FaultEncode(in, key) == IF poisoned THEN encode_poisoned(in, key) ELSE encode(in, key)

FaultDecode(token, key) == IF poisoned THEN decode_poisoned(token, key) ELSE decode(token, key)

FaultRemove(token) == IF poisoned THEN remove_poisoned(token) ELSE remove(token)

FaultSize == IF poisoned THEN size_poisoned ELSE size

FaultSweep == IF poisoned THEN sweep_poisoned ELSE sweep

FaultNext ==
    \/ \E in \in EncodeInputs, key \in EncodeKeys : FaultEncode(in, key)
    \/ \E in \in EncodeInputs, key \in EncodeKeys : encode_clock_lost(in, key)
    \/ \E token \in Tokens, key \in Keys : FaultDecode(token, key)
    \/ \E token \in DOMAIN issued : FaultRemove(token)
    \/ FaultSize
    \/ FaultSweep
    \/ Tick
    \/ Poison

\* The cache with a lock that can be poisoned at any time.
FaultSpec == Init /\ [][FaultNext]_vars

\* ------------------------------------------------------ short-lived sessions

\* The logins with a lifetime: the short one and the unit test's.
ExpiryInputs == ShortLivedInputs \cup { in \in EncodeInputs : in.expires_in # NoneVal }

\* The cache serving logins that outlive their lifetime within the run.
ExpiryNext ==
    \/ \E in \in ExpiryInputs, key \in EncodeKeys : encode(in, key)
    \/ \E token \in Tokens, key \in Keys : decode(token, key)
    \/ \E token \in DOMAIN issued : remove(token)
    \/ size
    \/ sweep
    \/ Tick

ExpirySpec == Init /\ [][ExpiryNext]_vars

\* -------------------------------------------------------- concurrent callers
\* encode, decode, remove, size and sweep called from several threads, one
\* step per lock acquisition, per piece of work done while the lock is held
\* and per piece of work done without it.

\* The login the threads encode and the key they use.
ConcInput == CHOOSE in \in EncodeInputs : in.expires_in = NoneVal

ConcKey == CHOOSE key \in EncodeKeys : TRUE

\* What the threads leave alone.
conc_fixed == <<ttl_secs, encrypt_fn, decrypt_fn, last, poisoned, aspa_vars, login>>

\* RwLock::read returns once no other thread holds the write lock.
can_read(t) == \A u \in Threads \ {t} : threads[u].holds # "write"

\* A write lock that keeps out other writers only.
can_write_shared(t) == \A u \in Threads \ {t} : threads[u].holds # "write"

\* RwLock::write returns once no other thread holds the lock.
can_write(t) == \A u \in Threads \ {t} : threads[u].holds = "none"

\* The first position of each operation.
EntryOf(op) ==
    CASE op = "encode" -> "start_time"
      [] op = "decode" -> "lookup_wait"
      [] op = "remove" -> "remove_wait"
      [] op = "size"   -> "size_wait"
      [] op = "sweep"  -> "sweep_wait"

\* The lock each waiting position asks for and the position it is held at.
Wanted(pc) ==
    CASE pc = "lookup_wait" -> [mode |-> "read",  pc |-> "lookup"]
      [] pc = "size_wait"   -> [mode |-> "read",  pc |-> "size"]
      [] pc = "cache_wait"  -> [mode |-> "write", pc |-> "cache_session"]
      [] pc = "remove_wait" -> [mode |-> "write", pc |-> "remove"]
      [] pc = "sweep_wait"  -> [mode |-> "write", pc |-> "sweep_clock"]

\* Thread t calls an operation of the cache.
Call(t, op, token) ==
    /\ threads[t].pc = "idle"
    /\ op = "encode" =>
         Cardinality(DOMAIN issued) + Cardinality({u \in Threads : threads[u].op = "encode"})
             < MaxIssued
    /\ threads' = [threads EXCEPT ![t] = [Idle EXCEPT !.op = op, !.pc = EntryOf(op), !.token = token]]
    /\ UNCHANGED <<cache, now, issued, conc_fixed>>

\* self.cache.read() (l.139, l.242) or self.cache.write() (l.152, l.233,
\* l.252) returns its guard to thread t.
Acquire(t) ==
    /\ threads[t].pc \in {"lookup_wait", "size_wait", "cache_wait", "remove_wait", "sweep_wait"}
    /\ IF Wanted(threads[t].pc).mode = "read" THEN can_read(t) ELSE can_write(t)
    /\ threads' = [threads EXCEPT ![t].holds = Wanted(threads[t].pc).mode,
                                  ![t].pc = Wanted(threads[t].pc).pc]
    /\ UNCHANGED <<cache, now, issued, conc_fixed>>

\* encode, l.178: the clock read for start_time; its error is returned.
EncodeStart(t) ==
    /\ threads[t].pc = "start_time"
    /\ \E clk \in ClockReads :
         threads' = [threads EXCEPT ![t] =
                        IF time_now_secs_since_epoch(clk).ok
                        THEN [threads[t] EXCEPT !.pc = "seal", !.T = clk]
                        ELSE Idle]
    /\ UNCHANGED <<cache, now, issued, conc_fixed>>

\* encode, l.187-195: serialization, the encrypt function and base64.
EncodeSeal(t) ==
    /\ threads[t].pc = "seal"
    /\ threads' = [threads EXCEPT ![t] =
                     [threads[t] EXCEPT
                        !.pc = "cache_wait",
                        !.token = EncodeOutcome(ConcInput, ConcKey, threads[t].T,
                                                encrypt_fn).result.val[1].token,
                        !.session = EncodeOutcome(ConcInput, ConcKey, threads[t].T,
                                                  encrypt_fn).session]]
    /\ UNCHANGED <<cache, now, issued, conc_fixed>>

\* cache_session with the write lock held, l.153-164: the clock read and the
\* insert; the guard is dropped and encode (l.198) or decode (l.229) returns.
CacheSession(t) ==
    /\ threads[t].pc = "cache_session"
    /\ \E clk \in ClockReads :
         /\ cache' = cache_session(cache, threads[t].token, threads[t].session[1], clk, ttl_secs)
         /\ threads' = [threads EXCEPT ![t] =
                          IF threads[t].raced /\ time_now_secs_since_epoch(clk).ok
                          THEN [Idle EXCEPT !.raced = TRUE, !.token = threads[t].token]
                          ELSE Idle]
    /\ issued' = IF threads[t].op = "encode"
                 THEN Insert(issued, threads[t].token,
                             [key |-> ConcKey, in |-> ConcInput, clock |-> threads[t].T])
                 ELSE issued
    /\ UNCHANGED <<now, conc_fixed>>

\* A lookup that keeps its read guard after a miss.
LookupKeepsLock(t) ==
    /\ threads[t].pc = "lookup"
    /\ threads' = [threads EXCEPT ![t] =
                     IF lookup_session(cache, threads[t].token) # <<>>
                     THEN Idle
                     ELSE [threads[t] EXCEPT !.pc = "slow"]]
    /\ UNCHANGED <<cache, now, issued, conc_fixed>>

\* lookup_session with the read lock held, l.141-143: a hit is returned by
\* decode (l.204); in both cases the guard is dropped at the end of the match.
Lookup(t) ==
    /\ threads[t].pc = "lookup"
    /\ threads' = [threads EXCEPT ![t] =
                     IF lookup_session(cache, threads[t].token) # <<>>
                     THEN Idle
                     ELSE [threads[t] EXCEPT !.pc = "slow", !.holds = "none"]]
    /\ UNCHANGED <<cache, now, issued, conc_fixed>>

\* decode, l.209-225: base64, the decrypt function and the deserialization;
\* an error is returned.
DecodeSlow(t) ==
    /\ threads[t].pc = "slow"
    /\ threads' = [threads EXCEPT ![t] =
                     IF SlowPathTable[<<as_bytes(threads[t].token), ConcKey, decrypt_fn>>].result.ok
                     THEN [threads[t] EXCEPT
                             !.pc = "cache_wait",
                             !.session = SlowPathTable[<<as_bytes(threads[t].token), ConcKey,
                                                         decrypt_fn>>].result.val]
                     ELSE Idle]
    /\ UNCHANGED <<cache, now, issued, conc_fixed>>

\* remove with the write lock held, l.235.
RemoveHeld(t) ==
    /\ threads[t].pc = "remove"
    /\ cache' = Delete(cache, threads[t].token)
    /\ threads' = [u \in Threads |->
                     IF u = t THEN Idle
                     ELSE IF /\ threads[u].op = "decode"
                             /\ threads[u].token = threads[t].token
                          THEN [threads[u] EXCEPT !.raced = TRUE]
                          ELSE threads[u]]
    /\ UNCHANGED <<now, issued, conc_fixed>>

\* size with the read lock held, l.243.
SizeHeld(t) ==
    /\ threads[t].pc = "size"
    /\ threads' = [threads EXCEPT ![t] = Idle]
    /\ UNCHANGED <<cache, now, issued, conc_fixed>>

\* A sweep that returns the clock's error with the lock still held.
SweepClockLeaks(t) ==
    /\ threads[t].pc = "sweep_clock"
    /\ \E clk \in ClockReads :
         threads' = [threads EXCEPT ![t] =
                        IF time_now_secs_since_epoch(clk).ok
                        THEN [threads[t] EXCEPT !.pc = "retain", !.T = clk]
                        ELSE [Idle EXCEPT !.holds = "write"]]
    /\ UNCHANGED <<cache, now, issued, conc_fixed>>

\* sweep with the write lock held, l.257-258: the clock read; its error is
\* returned and the guard dropped.
SweepClock(t) ==
    /\ threads[t].pc = "sweep_clock"
    /\ \E clk \in ClockReads :
         threads' = [threads EXCEPT ![t] =
                        IF time_now_secs_since_epoch(clk).ok
                        THEN [threads[t] EXCEPT !.pc = "retain", !.T = clk]
                        ELSE Idle]
    /\ UNCHANGED <<cache, now, issued, conc_fixed>>

\* sweep, l.262-271: the retain, with the write lock still held.
SweepRetain(t) ==
    /\ threads[t].pc = "retain"
    /\ cache' = Retain(cache, threads[t].T)
    /\ threads' = [threads EXCEPT ![t] = Idle]
    /\ UNCHANGED <<now, issued, conc_fixed>>

ConcNext ==
    \/ \E t \in Threads : Call(t, "sweep", NoToken)
    \/ \E t \in Callers, op \in {"encode", "size"} : Call(t, op, NoToken)
    \/ \E t \in Callers, op \in {"decode", "remove"}, token \in DOMAIN issued : Call(t, op, token)
    \/ \E t \in Threads : Acquire(t)
    \/ \E t \in Threads : EncodeStart(t)
    \/ \E t \in Threads : EncodeSeal(t)
    \/ \E t \in Threads : CacheSession(t)
    \/ \E t \in Threads : Lookup(t)
    \/ \E t \in Threads : DecodeSlow(t)
    \/ \E t \in Threads : RemoveHeld(t)
    \/ \E t \in Threads : SizeHeld(t)
    \/ \E t \in Threads : SweepClock(t)
    \/ \E t \in Threads : SweepRetain(t)
    \/ Tick

\* The unit test's cache (ttl of one second) under the real cipher.
ConcInit ==
    /\ Init
    /\ ttl_secs = TEST_TTL_SECS
    /\ encrypt_fn = "crypt"

ConcSpec == ConcInit /\ [][ConcNext]_vars

\* ---------------------------------------------------------------- a fair lock
\* The concurrent callers with a readers-writer lock that serves its waiters
\* first come, first served, and threads that keep running, within one second
\* of the clock.

\* RwLock::read / RwLock::write is called: thread t joins the lock's queue.
Enqueue(t) ==
    /\ threads[t].pc \in {"lookup_wait", "size_wait", "cache_wait", "remove_wait", "sweep_wait"}
    /\ threads[t].ticket = 0
    /\ threads' = [threads EXCEPT ![t].ticket =
                      1 + Cardinality({u \in Threads : threads[u].ticket > 0})]
    /\ UNCHANGED <<cache, now, issued, conc_fixed>>

\* The thread at the head of the queue gets its guard as soon as the holders
\* allow it; the threads behind it move up.
FairAcquire(t) ==
    /\ threads[t].ticket = 1
    /\ IF Wanted(threads[t].pc).mode = "read" THEN can_read(t) ELSE can_write(t)
    /\ threads' = [u \in Threads |->
                     IF u = t
                     THEN [threads[t] EXCEPT !.holds = Wanted(threads[t].pc).mode,
                                             !.pc = Wanted(threads[t].pc).pc,
                                             !.ticket = 0]
                     ELSE IF threads[u].ticket > 1
                          THEN [threads[u] EXCEPT !.ticket = threads[u].ticket - 1]
                          ELSE threads[u]]
    /\ UNCHANGED <<cache, now, issued, conc_fixed>>

\* A step of thread t inside an operation, other than the acquisition.
Work(t) ==
    \/ EncodeStart(t)
    \/ EncodeSeal(t)
    \/ CacheSession(t)
    \/ Lookup(t)
    \/ DecodeSlow(t)
    \/ RemoveHeld(t)
    \/ SizeHeld(t)
    \/ SweepClock(t)
    \/ SweepRetain(t)

FairNext ==
    \/ \E t \in Threads : Call(t, "sweep", NoToken)
    \/ \E t \in Callers, op \in {"encode", "size"} : Call(t, op, NoToken)
    \/ \E t \in Callers, op \in {"decode", "remove"}, token \in DOMAIN issued : Call(t, op, token)
    \/ \E t \in Threads : Enqueue(t)
    \/ \E t \in Threads : FairAcquire(t)
    \/ \E t \in Threads : Work(t)

\* Every thread that is inside an operation keeps being scheduled.
FairSpec ==
    /\ ConcInit
    /\ [][FairNext]_vars
    /\ \A t \in Threads : WF_vars(Enqueue(t) \/ FairAcquire(t) \/ Work(t))

\* ----------------------------------------------------------- session status

\* u64 arithmetic wraps modulo 2^64 when overflow checks are off. The model's
\* integers are 32 bits wide, so the modulus is scaled down to a power of two
\* that still lies beyond every clock value and lifetime of the model.
U64Modulus == 2^30

\* now.as_secs() - self.start_time, wrapped.
wrapping_sub(a, b) == (a - b) % U64Modulus

\* The comparison at half the lifetime taken inclusively.
StatusOfHalfInclusive(cur_age_secs, max_age_secs) ==
    IF cur_age_secs > max_age_secs THEN "Expired"
    ELSE IF cur_age_secs >= (max_age_secs \div 2) THEN "NeedsRefresh"
    ELSE "Active"

\* The if/else-if/else of status().
StatusOf(cur_age_secs, max_age_secs) ==
    IF cur_age_secs > max_age_secs THEN "Expired"
    ELSE IF cur_age_secs > (max_age_secs \div 2) THEN "NeedsRefresh"
    ELSE "Active"

StatusVal(s) == [status |-> s]

\* ClientSession::status of self, with clk the outcome of SystemTime::now().
\* The value it returns when the subtraction does not panic.
status(self, clk) ==
    IF self.expires_in # NoneVal /\ clk # ClockErr
    THEN StatusOf(wrapping_sub(clk, self.start_time), self.expires_in)
    ELSE "Active"

\* The subtraction is reached with now.as_secs() < self.start_time.
Underflows(self, clk) ==
    /\ self.expires_in # NoneVal
    /\ clk # ClockErr
    /\ clk < self.start_time

\* What a call can produce: the value, or with overflow checks compiled in
\* (debug profile) a panic where the subtraction underflows.
StatusOutcomes(self, clk) ==
    { Ok(StatusVal(status(self, clk))) } \cup
    (IF Underflows(self, clk) THEN { Err("Panic", "attempt to subtract with overflow") } ELSE {})

\* The session records a caller can hold: built at login or decoded from a
\* token, so start_time is whatever the record says.
Logins ==
    [start_time : 0..MaxStart, expires_in : {NoneVal} \cup (0..MaxLifetime),
     id : {"some id"}, attributes : {<<>>}, secrets : {<<>>}]

\* The caller comes to hold session record s.
Login(s) ==
    /\ login' = s
    /\ last' = Last("login", NoToken, NoKey, Ok(Unit), <<>>, ClockErr)
    /\ UNCHANGED <<cache, ttl_secs, encrypt_fn, decrypt_fn, now, issued, poisoned, aspa_vars, threads>>

\* login.status()
StatusCall ==
    /\ \E clk \in ClockReads : \E r \in StatusOutcomes(login, clk) :
         last' = Last("status", NoToken, NoKey, r, <<>>, clk)
    /\ UNCHANGED <<cache, ttl_secs, encrypt_fn, decrypt_fn, now, issued, poisoned, aspa_vars, login, threads>>

\* One second passes.
StatusTick ==
    /\ now < MaxClock
    /\ now' = now + 1
    /\ last' = Last("tick", NoToken, NoKey, Ok(Unit), <<>>, ClockErr)
    /\ UNCHANGED <<cache, ttl_secs, encrypt_fn, decrypt_fn, issued, poisoned, aspa_vars, login, threads>>

StatusNext ==
    \/ \E s \in Logins : Login(s)
    \/ StatusCall
    \/ StatusTick

StatusSpec == Init /\ [][StatusNext]_vars

\* ------------------------------------------------------------ ASPA: inputs

\* Customer ASNs: the one of the scenarios and another one.
Customers == {64500, 64510}

\* The provider lists the definitions a caller adds can carry: non-empty and
\* ordered (the lists of the scenarios, and the second one reordered).
ProviderLists == { <<64501>>, <<64501, 64502>>, <<64502, 64501>> }

\* AspaDefinition::new(customer, providers)
AspaDefinition_new(customer, providers) == [customer |-> customer, providers |-> providers]

Definitions == { AspaDefinition_new(c, p) : c \in Customers, p \in ProviderLists }

Range(f) == { f[x] : x \in DOMAIN f }

\* AspaProvidersUpdate: providers to add and providers to remove, disjoint.
ProvidersUpdates ==
    { u \in [added : {<<>>, <<64501>>, <<64502>>}, removed : {<<>>, <<64501>>, <<64502>>}] :
        Range(u.added) \cap Range(u.removed) = {} }

\* The sets of AS resources a certified key's incoming certificate can hold.
ResourceSets == SUBSET Customers

\* The order in which a HashMap hands out its keys is not specified.
Orders == { <<64500, 64510>>, <<64510, 64500>> }

\* The serial numbers random_serial() can return.
Serials == {1, 2}

\* ------------------------------------------------------ ASPA: definitions

\* AspaDefinition::apply_update: the removed providers are dropped, the added
\* ones that are not yet listed are appended.
AspaDefinition_apply_update(def, update) ==
    AspaDefinition_new(def.customer,
        SelectSeq(def.providers, LAMBDA p : p \notin Range(update.removed))
          \o SelectSeq(update.added, LAMBDA p : p \notin Range(def.providers)))

\* AspaDefinitions::add_or_replace
add_or_replace(atts, aspa_def) == Insert(atts, aspa_def.customer, aspa_def)

\* AspaDefinitions::remove
AspaDefinitions_remove(atts, customer) == Delete(atts, customer)

\* AspaDefinitions::has
has(atts, customer) == customer \in DOMAIN atts

\* AspaDefinitions::apply_update
apply_update(atts, customer, update) ==
    IF has(atts, customer)
    THEN IF AspaDefinition_apply_update(atts[customer], update).providers = <<>>
         THEN Delete(atts, customer)
         ELSE Insert(atts, customer, AspaDefinition_apply_update(atts[customer], update))
    ELSE Insert(atts, customer,
                AspaDefinition_apply_update(AspaDefinition_new(customer, <<>>), update))

\* ---------------------------------------------------------- ASPA: objects

\* AspaInfo: of its fields the definition, the validity (its not_after time)
\* and the serial are kept; uri, base64 and hash follow from them and the key.
AspaInfo_new(definition, validity, serial) ==
    [definition |-> definition, validity |-> validity, serial |-> serial]

\* The time a new object stays valid for, in the clock's seconds.
AspaValidity == 1

\* IssuanceTimingConfig::new_aspa_validity at time t: the not_after of an
\* object issued then.
new_aspa_validity(t) == t + AspaValidity

\* AspaInfo::customer
AspaInfo_customer(info) == info.definition.customer

\* ResourceSet::contains_asn
contains_asn(resources, asn) == asn \in resources

\* AspaBuilder::new accepts the definition: it has providers.
AspaBuilderAccepts(aspa_def) == aspa_def.providers # <<>>

\* make_aspa: the builder, then the signer.
make_aspa(aspa_def, validity, serial, signer_ok) ==
    IF ~AspaBuilderAccepts(aspa_def) THEN Err("Custom", "Cannot use aspa config")
    ELSE IF ~signer_ok THEN Err("SignerError", "signer")
    ELSE Ok(AspaInfo_new(aspa_def, validity, serial))

\* Every definition taken as relevant, whatever the resources.
AlwaysRelevant(resources, aspa) == TRUE

\* The filter of the first loop of update.
Relevant(resources, aspa) == contains_asn(resources, aspa.customer)

\* An object is only issued where none is held.
need_to_issue_absent(objs, relevant_aspa) == ~(relevant_aspa.customer \in DOMAIN objs)

\* The definitions compared by their provider sets.
need_to_issue_as_sets(objs, relevant_aspa) ==
    IF relevant_aspa.customer \in DOMAIN objs
    THEN Range(objs[relevant_aspa.customer].definition.providers) # Range(relevant_aspa.providers)
    ELSE TRUE

\* need_to_issue
need_to_issue(objs, relevant_aspa) ==
    IF relevant_aspa.customer \in DOMAIN objs
    THEN objs[relevant_aspa.customer].definition # relevant_aspa
    ELSE TRUE

\* An object is withdrawn only when both conditions hold.
WithdrawnBoth(all_aspa_defs, resources, customer) ==
    ~has(all_aspa_defs, customer) /\ ~contains_asn(resources, customer)

\* An object is withdrawn only when its definition is gone.
WithdrawnUndefined(all_aspa_defs, resources, customer) == ~has(all_aspa_defs, customer)

\* The condition of the second loop of update.
Withdrawn(all_aspa_defs, resources, customer) ==
    ~has(all_aspa_defs, customer) \/ ~contains_asn(resources, customer)

\* The customers the first loop issues an object for, in the order the
\* definitions are iterated in.
ToIssue(objs, all_aspa_defs, resources, order) ==
    SelectSeq(order, LAMBDA c :
        /\ has(all_aspa_defs, c)
        /\ Relevant(resources, all_aspa_defs[c])
        /\ need_to_issue(objs, all_aspa_defs[c]))

\* The customers the second loop withdraws, in the order the objects are
\* iterated in.
ToRemove(objs, all_aspa_defs, resources, order) ==
    SelectSeq(order, LAMBDA c : c \in DOMAIN objs /\ Withdrawn(all_aspa_defs, resources, c))

\* The results of make_aspa for the customers in issue, one after the other,
\* each with the definition defs holds for it.
Made(defs, issue, validity, sn, signer_ok) ==
    [i \in 1..Len(issue) |-> make_aspa(defs[issue[i]], validity, sn[issue[i]], signer_ok)]

\* A batch with the objects made so far, whether or not one has failed.
UpdateResultPartial(made, removed) ==
    Ok([updated |-> SelectSeq(made, LAMBDA r : r.ok), removed |-> removed])

\* The first loop stops at the first make_aspa that fails (the ? operator).
UpdateResult(made, removed) ==
    IF \E i \in 1..Len(made) : ~made[i].ok
    THEN made[CHOOSE i \in 1..Len(made) :
                 ~made[i].ok /\ \A j \in 1..(i - 1) : made[j].ok]
    ELSE Ok([updated |-> [i \in 1..Len(made) |-> made[i].val[1]], removed |-> removed])

\* AspaObjects::update
update(objs, all_aspa_defs, resources, order, validity, sn, signer_ok) ==
    UpdateResult(Made(all_aspa_defs, ToIssue(objs, all_aspa_defs, resources, order),
                      validity, sn, signer_ok),
                 ToRemove(objs, all_aspa_defs, resources, order))

\* An object is also renewed when it expires at the threshold.
renew_due_inclusive(aspa, renew_threshold) ==
    renew_threshold = NoneVal \/ aspa.validity <= renew_threshold

\* let renew: aspa.expires() < threshold, or no threshold.
renew_due(aspa, renew_threshold) ==
    renew_threshold = NoneVal \/ aspa.validity < renew_threshold

\* The customers whose objects renew regenerates, in the order the objects
\* are iterated in.
ToRenew(objs, renew_threshold, order) ==
    SelectSeq(order, LAMBDA c : c \in DOMAIN objs /\ renew_due(objs[c], renew_threshold))

\* AspaObjects::renew
renew(objs, renew_threshold, order, validity, sn, signer_ok) ==
    UpdateResult(Made([c \in DOMAIN objs |-> objs[c].definition],
                      ToRenew(objs, renew_threshold, order), validity, sn, signer_ok),
                 <<>>)

RECURSIVE InsertAll(_, _)
InsertAll(objs, infos) ==
    IF infos = <<>> THEN objs
    ELSE InsertAll(Insert(objs, AspaInfo_customer(Head(infos)), Head(infos)), Tail(infos))

RECURSIVE DeleteAll(_, _)
DeleteAll(objs, customers) ==
    IF customers = <<>> THEN objs
    ELSE DeleteAll(Delete(objs, Head(customers)), Tail(customers))

\* The batch taken as the whole new Object Set.
updated_replace(objs, updates) == InsertAll(<<>>, updates.updated)

\* The batch applied without its removals.
updated_insert_only(objs, updates) == InsertAll(objs, updates.updated)

\* AspaObjects::updated
updated(objs, updates) == DeleteAll(InsertAll(objs, updates.updated), updates.removed)

\* --------------------------------------------------------- ASPA: operations

cache_vars == <<cache, ttl_secs, encrypt_fn, decrypt_fn, now, issued, last, poisoned, login, threads>>

AddOrReplace(aspa_def) ==
    /\ attestations' = add_or_replace(attestations, aspa_def)
    /\ aspa_last' = AspaLast("add_or_replace", aspa_def, Ok(Unit))
    /\ UNCHANGED <<objects, cache_vars>>

RemoveDefinition(customer) ==
    /\ attestations' = AspaDefinitions_remove(attestations, customer)
    /\ aspa_last' = AspaLast("remove", [customer |-> customer], Ok(Unit))
    /\ UNCHANGED <<objects, cache_vars>>

ApplyUpdate(customer, u) ==
    /\ attestations' = apply_update(attestations, customer, u)
    /\ aspa_last' = AspaLast("apply_update", [customer |-> customer, update |-> u], Ok(Unit))
    /\ UNCHANGED <<objects, cache_vars>>

\* objects.update(&attestations, certified_key, config, signer): the batch is
\* handed to the caller, the objects are left as they are.
Update(resources, order, sn, signer_ok) ==
    /\ aspa_last' = AspaLast("update", [resources |-> resources, signer_ok |-> signer_ok],
                             update(objects, attestations, resources, order,
                                    new_aspa_validity(now), sn, signer_ok))
    /\ UNCHANGED <<attestations, objects, cache_vars>>

\* objects.renew(certified_key, renew_threshold, issuance_timing, signer)
Renew(renew_threshold, order, sn, signer_ok) ==
    /\ aspa_last' = AspaLast("renew", [threshold |-> renew_threshold, signer_ok |-> signer_ok],
                             renew(objects, renew_threshold, order,
                                   new_aspa_validity(now), sn, signer_ok))
    /\ UNCHANGED <<attestations, objects, cache_vars>>

\* The caller applies the batch update or renew has just returned.
Updated ==
    /\ aspa_last.op \in {"update", "renew"}
    /\ aspa_last.result.ok
    /\ objects' = updated(objects, aspa_last.result.val[1])
    /\ aspa_last' = AspaLast("updated", aspa_last.result.val[1], Ok(Unit))
    /\ UNCHANGED <<attestations, cache_vars>>

\* The serial numbers drawn during one call, here the same for each object.
RenewSerials == { [c \in Customers |-> n] : n \in Serials }

AspaNext ==
    \/ \E aspa_def \in Definitions : AddOrReplace(aspa_def)
    \/ \E customer \in Customers : RemoveDefinition(customer)
    \/ \E customer \in Customers, u \in ProvidersUpdates : ApplyUpdate(customer, u)
    \/ \E resources \in ResourceSets, order \in Orders, sn \in [Customers -> Serials],
          signer_ok \in BOOLEAN : Update(resources, order, sn, signer_ok)
    \/ \E order \in Orders, sn \in RenewSerials, signer_ok \in BOOLEAN :
          Renew(NoneVal, order, sn, signer_ok)
    \/ Updated

\* The CA starts without definitions and objects; the session cache is the
\* default one and stays idle.
AspaInit ==
    /\ Init
    /\ ttl_secs = MAX_CACHE_SECS
    /\ encrypt_fn = "crypt"

AspaSpec == AspaInit /\ [][AspaNext]_vars

\* ------------------------------------------------------------ ASPA: renewal

\* The renewal thresholds: none, or a time among the not_after times.
Thresholds == {NoneVal} \cup (2..(MaxTime + AspaValidity))

\* The definitions the CA is given while time passes: scenario S6's two.
RenewDefinitions ==
    { AspaDefinition_new(c, p) : c \in Customers, p \in {<<64501>>, <<64501, 64502>>} }

\* The CA over time: definitions come and go, objects are issued, renewed
\* and the batches applied.
RenewNext ==
    \/ \E aspa_def \in RenewDefinitions : AddOrReplace(aspa_def)
    \/ \E customer \in Customers : RemoveDefinition(customer)
    \/ \E resources \in ResourceSets, order \in Orders, sn \in RenewSerials,
          signer_ok \in BOOLEAN : Update(resources, order, sn, signer_ok)
    \/ \E renew_threshold \in Thresholds, order \in Orders, sn \in RenewSerials,
          signer_ok \in BOOLEAN : Renew(renew_threshold, order, sn, signer_ok)
    \/ Updated
    \/ Tick

RenewSpec == AspaInit /\ [][RenewNext]_vars

\* ------------------------------------------------------------------ claims

\* The record encode builds from its arguments and the clock value it read.
SessionOf(i) ==
    [start_time |-> i.clock, expires_in |-> i.in.expires_in, id |-> i.in.id,
     attributes |-> i.in.attributes, secrets |-> i.in.secrets]

Hit == <<"lookup">>

\* The last operation was decode of a token encode returned.
DecodedIssued == last.op = "decode" /\ last.token \in DOMAIN issued

\* C1: decode(encode(id, attrs, secrets, key, expires_in), key) succeeds and
\* returns the record with the same id, attributes, secrets and expires_in
\* and with start_time the clock value encode read, from the cache and on the
\* slow path alike.
C1_RoundTrip ==
    (DecodedIssued /\ last.key = issued[last.token].key) =>
        last.result = Ok(SessionOf(issued[last.token]))

\* C1 on the slow path, under crypt, for the record with a lifetime.
C1_Witness ==
    /\ DecodedIssued
    /\ last.key = issued[last.token].key
    /\ decrypt_fn = "crypt"
    /\ Len(last.trace) = 5
    /\ last.result.ok
    /\ last.result.val[1].expires_in = 10

\* C2 as stated: decode of a token encode produced under k fails with
\* InvalidCredentials under every other key, cached or not (crypt cipher).
C2_WrongKeyAlwaysFails ==
    (DecodedIssued /\ decrypt_fn = "crypt" /\ last.key # issued[last.token].key) =>
        (~last.result.ok /\ last.result.err = "ApiInvalidCredentials")

\* C2, amended: under another key than the one the token was produced with,
\* decode returns the cached record when the token has a cache entry (the key
\* is not consulted); when it has none, the decrypt function is called with
\* that key and its failure is returned unchanged.
C2_WrongKey ==
    (DecodedIssued /\ last.key # issued[last.token].key) =>
        /\ last.trace = Hit => last.result = Ok(SessionOf(issued[last.token]))
        /\ last.trace # Hit =>
              /\ Len(last.trace) >= 3 /\ last.trace[3] = "decrypt"
              /\ \A d \in {call_decrypt(decrypt_fn, last.key,
                             SubSeq(base64_decode(as_bytes(last.token)).out[1], 1,
                                    Len(base64_decode(as_bytes(last.token)).out[1]) - TAG_SIZE),
                             SubSeq(base64_decode(as_bytes(last.token)).out[1],
                                    Len(base64_decode(as_bytes(last.token)).out[1]) - TAG_SIZE + 1,
                                    Len(base64_decode(as_bytes(last.token)).out[1])))} :
                    ~d.ok => last.result = d

\* C2: a miss under the wrong key, refused by crypt::decrypt.
C2_Witness ==
    /\ DecodedIssued
    /\ decrypt_fn = "crypt"
    /\ last.key # issued[last.token].key
    /\ last.trace = <<"lookup", "base64", "decrypt">>
    /\ ~last.result.ok

\* The number of bytes the token's string decodes to, -1 for malformed base64.
DecodedLen ==
    [t \in AllTokens |->
        IF base64_decode(as_bytes(t)).ok THEN Len(base64_decode(as_bytes(t)).out[1]) ELSE -1]
      @@ <<>>

\* C3: a decode miss on a token of at most 16 decoded bytes fails with
\* InvalidCredentials "token is too short" before the cipher is called; a
\* token of 17 or more bytes gets past this check to the decrypt function.
C3_TooShort ==
    (last.op = "decode" /\ last.trace # Hit /\ DecodedLen[last.token] >= 0) =>
        /\ DecodedLen[last.token] <= 16 =>
              /\ last.result = Err("ApiInvalidCredentials",
                                   "Invalid bearer token: token is too short")
              /\ \A i \in DOMAIN last.trace : last.trace[i] # "decrypt"
        /\ DecodedLen[last.token] >= 17 =>
              /\ last.result.msg # "Invalid bearer token: token is too short"
              /\ Len(last.trace) >= 3 /\ last.trace[3] = "decrypt"

\* C3 at the boundary: exactly 16 decoded bytes.
C3_Witness ==
    /\ last.op = "decode"
    /\ last.token = ShortToken16
    /\ DecodedLen[last.token] = 16
    /\ last.result.msg = "Invalid bearer token: token is too short"

C5_Remove ==
    [][ /\ last'.op = "remove" =>
             /\ last'.result.ok
             /\ last'.token \notin DOMAIN cache'
             /\ DOMAIN cache' = DOMAIN cache \ {last'.token}
             /\ \A u \in DOMAIN cache' : cache'[u] = cache[u]
        /\ (last'.op = "remove" /\ last'.token \notin DOMAIN cache) => cache' = cache
        /\ (last.op = "remove" /\ last'.op = "decode" /\ last'.token = last.token) =>
             /\ Len(last'.trace) >= 3
             /\ SubSeq(last'.trace, 1, 3) = <<"lookup", "base64", "decrypt">>
      ]_vars

\* C5: a token encode returned has been removed while another stays cached.
C5_Witness ==
    /\ last.op = "remove"
    /\ last.token \in DOMAIN issued
    /\ last.token \notin DOMAIN cache
    /\ DOMAIN cache # {}

\* C6: a successful sweep that read clock value T keeps exactly the entries
\* with evict_after > T, unchanged, and drops exactly those with
\* evict_after <= T.
C6_SweepExact ==
    [][ (last'.op = "sweep" /\ last'.result.ok) =>
           /\ DOMAIN cache' = {k \in DOMAIN cache : cache[k].evict_after > last'.T}
           /\ \A k \in DOMAIN cache' : cache'[k] = cache[k]
      ]_vars

\* C6: a sweep at T dropped an entry with evict_after = T and kept another.
C6_Witness ==
    /\ last.op = "sweep"
    /\ last.result.ok
    /\ DOMAIN cache # {}
    /\ \E t \in DOMAIN issued :
          t \notin DOMAIN cache /\ issued[t].clock + ttl_secs = last.T

\* C7: a second passing leaves the cache as it is; size counts every entry,
\* and decode serves every entry as a hit, also those whose evict_after has
\* passed.
C7_TimeAlone ==
    [][ /\ last'.op = "tick" => cache' = cache
        /\ last'.op = "size" => last'.result = Ok(SizeVal(Cardinality(DOMAIN cache)))
        /\ \A t \in DOMAIN cache :
             (cache[t].evict_after <= now /\ last'.op = "decode" /\ last'.token = t) =>
                 (last'.result = Ok(cache[t].session) /\ last'.trace = Hit /\ cache' = cache)
      ]_vars

\* C7: size has counted an entry whose evict_after has passed.
C7_Witness ==
    /\ last.op = "size"
    /\ last.result.val[1].size >= 1
    /\ \A t \in DOMAIN cache : cache[t].evict_after < now

\* C8: a decode served from the cache leaves the whole cache, evict_after
\* included, as it was, and a sweep at or after an entry's evict_after
\* removes it.
C8_HitKeepsResidency ==
    [][ /\ (last'.op = "decode" /\ last'.trace = Hit) => cache' = cache
        /\ (last'.op = "sweep" /\ last'.result.ok) =>
             \A t \in DOMAIN cache : cache[t].evict_after <= last'.T => t \notin DOMAIN cache'
      ]_vars

\* C8: a hit at a later second than the one the entry was stored in.
C8_Witness ==
    /\ last.op = "decode"
    /\ last.trace = Hit
    /\ last.token \in DOMAIN cache
    /\ cache[last.token].evict_after < now + ttl_secs

\* Scenario S2: the cache has a ttl of one second, t2 was stored by an encode
\* at T, it is now T + 2 and decode(t2) has just been served from the cache.
S2_Decoded ==
    /\ ttl_secs = TEST_TTL_SECS
    /\ DecodedIssued
    /\ last.trace = Hit
    /\ last.token \in DOMAIN cache
    /\ cache[last.token].evict_after = issued[last.token].clock + ttl_secs
    /\ now = issued[last.token].clock + 2

\* C9 as stated: the sweep that follows retains t2.
C9_SweepRetains ==
    [][ (S2_Decoded /\ last'.op = "sweep" /\ last'.result.ok) =>
           last.token \in DOMAIN cache' ]_vars

\* C9, amended: the sweep that follows removes t2, whose evict_after T + 1
\* is not greater than T + 2, and leaves the cache empty when t2 was its only
\* entry.
C9_SweepEvicts ==
    [][ (S2_Decoded /\ last'.op = "sweep" /\ last'.result.ok) =>
           /\ last.token \notin DOMAIN cache'
           /\ DOMAIN cache = {last.token} => Cardinality(DOMAIN cache') = 0
      ]_vars

\* C9: the sweep two seconds after the encode has emptied the cache.
C9_Witness ==
    /\ ttl_secs = TEST_TTL_SECS
    /\ last.op = "sweep"
    /\ last.result.ok
    /\ cache = <<>>
    /\ \E t \in DOMAIN issued : issued[t].clock + 2 = last.T

\* C10: every failure of decode is returned as the InvalidCredentials error
\* kind.
C10_OnlyInvalidCredentials ==
    (last.op = "decode" /\ ~last.result.ok) => last.result.err = "ApiInvalidCredentials"

\* C10: decode has failed in the deserialization.
C10_Witness ==
    /\ last.op = "decode"
    /\ ~last.result.ok
    /\ last.trace = <<"lookup", "base64", "decrypt", "from_slice">>

\* C11: with the lock poisoned no cache operation returns an error: decode
\* misses, encode, decode and remove leave the cache as it is, size reports a
\* value, and sweep fails only when the clock is unavailable.
C11_PoisonSwallowed ==
    (poisoned /\ last.op \in {"encode", "decode", "remove", "size", "sweep"}) =>
        /\ last.op \in {"remove", "size"} => last.result.ok
        /\ last.op = "decode" => last.trace # Hit
        /\ last.op = "encode" => (last.T # ClockErr => last.result.ok)
        /\ last.op = "sweep" => (last.T # ClockErr => last.result.ok)

\* C11: sweep has failed on a poisoned lock with the clock available.
C11_Witness ==
    /\ poisoned
    /\ last.op = "sweep"
    /\ last.T # ClockErr
    /\ ~last.result.ok

\* The age of the session at the clock value the last status() read.
StatusAge == last.T - login.start_time

\* The last operation was a status() that read the clock of a session with a
\* lifetime, at or after its start.
StatusAged ==
    /\ last.op = "status"
    /\ login.expires_in # NoneVal
    /\ last.T # ClockErr
    /\ last.T >= login.start_time

StatusIs(s) == last.result = Ok(StatusVal(s))

\* C12 as stated: at age a of lifetime L, status() is Active exactly when less
\* than half of L has elapsed (2a < L), NeedsRefresh from half of L to L, and
\* Expired beyond L.
C12_HalfIsRefresh ==
    StatusAged =>
        /\ StatusIs("Active") <=> 2 * StatusAge < login.expires_in
        /\ StatusIs("NeedsRefresh") <=>
               (2 * StatusAge >= login.expires_in /\ StatusAge <= login.expires_in)
        /\ StatusIs("Expired") <=> StatusAge > login.expires_in

\* C12 (amended): for a clock not earlier than start_time, status() is Active
\* while at most half of L has elapsed (2a <= L, so also at exactly half and
\* for L = 0 at age 0), NeedsRefresh when more than half and at most L has
\* elapsed, Expired when a > L; without a lifetime or without a clock reading
\* it is Active.
C12_Status ==
    /\ StatusAged =>
        /\ StatusIs("Active") <=> 2 * StatusAge <= login.expires_in
        /\ StatusIs("NeedsRefresh") <=>
               (2 * StatusAge > login.expires_in /\ StatusAge <= login.expires_in)
        /\ StatusIs("Expired") <=> StatusAge > login.expires_in
    /\ (last.op = "status" /\ (login.expires_in = NoneVal \/ last.T = ClockErr)) =>
        StatusIs("Active")

\* A session at exactly half of its lifetime is reported Active.
C12_Witness ==
    /\ StatusAged
    /\ login.expires_in = 2
    /\ StatusAge = 1
    /\ StatusIs("Active")

\* The lifetime of the session in cache entry v is over at t.
Elapsed(v, t) ==
    v.session.expires_in # NoneVal /\ v.session.start_time + v.session.expires_in < t

\* C13: decode under the right key returns the record of a token encode
\* produced also when start_time + expires_in has elapsed, and the record's
\* status() is then Expired; a sweep at T keeps every entry with
\* evict_after > T whose session's lifetime is over and drops every entry
\* with evict_after <= T whose session is still alive or has no lifetime.
C13_ExpiryNotEnforced ==
    [][ /\ (last'.op = "decode" /\ last'.token \in DOMAIN issued
              /\ last'.key = issued[last'.token].key
              /\ Elapsed([session |-> SessionOf(issued[last'.token])], now)) =>
               /\ last'.result = Ok(SessionOf(issued[last'.token]))
               /\ status(last'.result.val[1], now) = "Expired"
        /\ (last'.op = "sweep" /\ last'.result.ok) =>
             \A t \in DOMAIN cache :
                /\ (cache[t].evict_after > last'.T /\ Elapsed(cache[t], last'.T)) =>
                      (t \in DOMAIN cache' /\ cache'[t] = cache[t])
                /\ (cache[t].evict_after <= last'.T /\ ~Elapsed(cache[t], last'.T)) =>
                      t \notin DOMAIN cache'
      ]_vars

\* C13: decode has served from the cache a session whose lifetime is over.
C13_Witness ==
    /\ DecodedIssued
    /\ last.trace = Hit
    /\ last.result.ok
    /\ Elapsed([session |-> last.result.val[1]], now)
    /\ status(last.result.val[1], now) = "Expired"

\* C14: every definition present in the Definition Set has at least one
\* provider, after any sequence of add_or_replace, remove and apply_update.
C14_NonEmptyProviders ==
    \A c \in DOMAIN attestations : attestations[c].providers # <<>>

\* C14: a definition without providers is present in the Definition Set.
C14_Witness ==
    \E c \in DOMAIN attestations : attestations[c].providers = <<>>

\* The definition apply_update of the last step started from: the one held
\* for the customer before, or the empty one.
UpdatedFrom ==
    IF has(attestations, aspa_last'.arg.customer)
    THEN attestations[aspa_last'.arg.customer]
    ELSE AspaDefinition_new(aspa_last'.arg.customer, <<>>)

\* The definitions of the customers other than c are as they were.
OthersUnchanged(c) ==
    /\ DOMAIN attestations' \ {c} = DOMAIN attestations \ {c}
    /\ \A d \in DOMAIN attestations \ {c} : attestations'[d] = attestations[d]

\* C15: after apply_update(c, u) the set has no definition for c when the
\* diff leaves c's provider list empty, holds the definition with the diff
\* applied when it leaves the list non-empty, and the definitions of other
\* customers are unchanged.
C15_ApplyUpdate ==
    [][ aspa_last'.op = "apply_update" =>
          /\ IF AspaDefinition_apply_update(UpdatedFrom, aspa_last'.arg.update).providers = <<>>
             THEN ~has(attestations', aspa_last'.arg.customer)
             ELSE /\ has(attestations', aspa_last'.arg.customer)
                  /\ attestations'[aspa_last'.arg.customer] =
                        AspaDefinition_apply_update(UpdatedFrom, aspa_last'.arg.update)
          /\ OthersUnchanged(aspa_last'.arg.customer)
      ]_vars

\* C15: apply_update has just run and the set holds a definition without
\* providers for its customer.
C15_Witness ==
    /\ aspa_last.op = "apply_update"
    /\ has(attestations, aspa_last.arg.customer)
    /\ attestations[aspa_last.arg.customer].providers = <<>>

\* C16: apply_update(c, u) on a set without a definition for c inserts the
\* empty definition with the diff applied, unless that leaves it without
\* providers: then nothing is inserted and the set is unchanged.
C16_NoEmptyInsert ==
    [][ (aspa_last'.op = "apply_update" /\ ~has(attestations, aspa_last'.arg.customer)) =>
          IF AspaDefinition_apply_update(UpdatedFrom, aspa_last'.arg.update).providers = <<>>
          THEN attestations' = attestations
          ELSE attestations' = Insert(attestations, aspa_last'.arg.customer,
                                      AspaDefinition_apply_update(UpdatedFrom, aspa_last'.arg.update))
      ]_vars

\* C16: apply_update with an update that adds nothing has just put a
\* definition without providers into the set.
C16_Witness ==
    /\ aspa_last.op = "apply_update"
    /\ aspa_last.arg.update.added = <<>>
    /\ has(attestations, aspa_last.arg.customer)
    /\ attestations[aspa_last.arg.customer].providers = <<>>

\* The last operation was an update that returned a batch.
UpdateReturned == aspa_last.op = "update" /\ aspa_last.result.ok

\* The batch the last update returned.
Batch == aspa_last.result.val[1]

\* The customers of the objects in the updated list, in its order.
UpdatedCustomers == [i \in DOMAIN Batch.updated |-> AspaInfo_customer(Batch.updated[i])]

\* How often x occurs in the list seq.
Times(seq, x) == Cardinality({ i \in DOMAIN seq : seq[i] = x })

\* C17: the batch a successful update returns has no customer ASN that is
\* both in updated and in removed.
C17_Disjoint ==
    UpdateReturned => Range(UpdatedCustomers) \cap Range(Batch.removed) = {}

\* C17: an update has returned a batch that issues for one customer and
\* withdraws another.
C17_Witness ==
    /\ UpdateReturned
    /\ Batch.updated # <<>>
    /\ Batch.removed # <<>>

\* C18: the removed list of a successful update holds, once each, exactly the
\* customers that hold an object and are absent from the Definition Set or
\* not contained in the key's resource set.
C18_RemovedExact ==
    UpdateReturned =>
        \A c \in Customers :
            Times(Batch.removed, c) =
                IF /\ c \in DOMAIN objects
                   /\ (c \notin DOMAIN attestations \/ c \notin aspa_last.arg.resources)
                THEN 1 ELSE 0

\* C18: a held customer that is neither defined nor in the resources is
\* listed once, next to a held customer that is kept.
C18_Witness ==
    /\ UpdateReturned
    /\ \E c \in DOMAIN objects :
          /\ c \notin DOMAIN attestations
          /\ c \notin aspa_last.arg.resources
          /\ Times(Batch.removed, c) = 1
    /\ \E c \in DOMAIN objects : Times(Batch.removed, c) = 0

\* C19: the updated list of a successful update has exactly one object for
\* each definition d whose customer is in the key's resource set and has no
\* object or an object with a definition other than d, no object for any
\* other customer, and each object embeds the current definition of its
\* customer.
C19_UpdatedExact ==
    UpdateReturned =>
        /\ \A c \in Customers :
              Times(UpdatedCustomers, c) =
                  IF /\ c \in DOMAIN attestations
                     /\ c \in aspa_last.arg.resources
                     /\ (c \notin DOMAIN objects \/ objects[c].definition # attestations[c])
                  THEN 1 ELSE 0
        /\ \A i \in DOMAIN Batch.updated :
              /\ UpdatedCustomers[i] \in DOMAIN attestations
              /\ Batch.updated[i].definition = attestations[UpdatedCustomers[i]]

\* C19: scenario S6, an object is reissued for a changed definition, while
\* the object of an unchanged definition is left alone.
C19_Witness ==
    /\ UpdateReturned
    /\ \E c \in DOMAIN objects :
          /\ Times(UpdatedCustomers, c) = 1
          /\ objects[c].definition.providers = <<64501>>
          /\ attestations[c].providers = <<64501, 64502>>
    /\ \E c \in DOMAIN objects \cap aspa_last.arg.resources :
          /\ c \in DOMAIN attestations
          /\ objects[c].definition = attestations[c]
          /\ Times(UpdatedCustomers, c) = 0

\* C20: a customer that holds an object and is still defined, but is no
\* longer in the key's resource set, is in removed and gets no object in
\* updated, whether its definition changed or not.
C20_WithdrawnOnResourceLoss ==
    UpdateReturned =>
        \A c \in (DOMAIN objects \cap DOMAIN attestations) \ aspa_last.arg.resources :
            /\ c \in Range(Batch.removed)
            /\ c \notin Range(UpdatedCustomers)

\* C20: scenario S5 with a definition that changed since the object was
\* issued.
C20_Witness ==
    /\ UpdateReturned
    /\ \E c \in (DOMAIN objects \cap DOMAIN attestations) \ aspa_last.arg.resources :
          /\ objects[c].definition # attestations[c]
          /\ Batch.updated = <<>>
          /\ Batch.removed = <<c>>

\* The last operation was a renew that returned a batch.
RenewReturned == aspa_last.op = "renew" /\ aspa_last.result.ok

\* C21: the batch of a successful renew has exactly one object for every held
\* object when no threshold is given, and otherwise for every held object
\* whose not_after is strictly earlier than the threshold; each new object
\* embeds the definition of the held one; the removed list is empty.
C21_Renew ==
    RenewReturned =>
        /\ \A c \in Customers :
              Times(UpdatedCustomers, c) =
                  IF /\ c \in DOMAIN objects
                     /\ (aspa_last.arg.threshold = NoneVal
                           \/ objects[c].validity < aspa_last.arg.threshold)
                  THEN 1 ELSE 0
        /\ \A i \in DOMAIN Batch.updated :
              Batch.updated[i].definition = objects[UpdatedCustomers[i]].definition
        /\ Batch.removed = <<>>

\* C21: an object expiring at the threshold is left alone while one expiring
\* before it is renewed with its snapshotted definition, which is no longer
\* the customer's current one.
C21_Witness ==
    /\ RenewReturned
    /\ \E c \in DOMAIN objects :
          /\ objects[c].validity = aspa_last.arg.threshold
          /\ Times(UpdatedCustomers, c) = 0
    /\ \E c \in DOMAIN objects :
          /\ Times(UpdatedCustomers, c) = 1
          /\ (c \notin DOMAIN attestations \/ attestations[c] # objects[c].definition)

\* C22: update and renew leave the Object Set as it is, nothing but updated
\* changes it, and updated(batch) leaves every customer in batch.removed
\* without an entry, gives every other customer of batch.updated the entry
\* of the batch, and leaves all remaining entries as they were.
C22_OnlyUpdated ==
    [][ /\ aspa_last'.op \in {"update", "renew"} => objects' = objects
        /\ objects' # objects => aspa_last'.op = "updated"
        /\ (aspa_last'.op = "updated" /\ aspa_last.op \in {"update", "renew"}) =>
             \A c \in Customers :
                IF c \in Range(aspa_last'.arg.removed)
                THEN c \notin DOMAIN objects'
                ELSE IF \E i \in DOMAIN aspa_last'.arg.updated :
                           AspaInfo_customer(aspa_last'.arg.updated[i]) = c
                THEN /\ c \in DOMAIN objects'
                     /\ \E i \in DOMAIN aspa_last'.arg.updated : objects'[c] = aspa_last'.arg.updated[i]
                ELSE /\ c \in DOMAIN objects' <=> c \in DOMAIN objects
                     /\ c \in DOMAIN objects => objects'[c] = objects[c]
      ]_vars

\* C22: a batch with one new object and one removal has been applied.
C22_Witness ==
    /\ aspa_last.op = "updated"
    /\ Len(aspa_last.arg.updated) = 1
    /\ Len(aspa_last.arg.removed) = 1
    /\ DOMAIN objects = {AspaInfo_customer(aspa_last.arg.updated[1])}
    /\ objects[AspaInfo_customer(aspa_last.arg.updated[1])] = aspa_last.arg.updated[1]

\* make_aspa fails for definition d under the signer of the last call.
MakeFails(d) == d.providers = <<>> \/ ~aspa_last'.arg.signer_ok

\* C23: when an update or a renew has to build an object that the builder
\* rejects or the signer fails on, the call returns an error, which carries
\* no batch, and leaves the Object Set and the Definition Set as they were.
C23_BatchAborted ==
    [][ /\ (/\ aspa_last'.op = "update"
            /\ \E c \in DOMAIN attestations \cap aspa_last'.arg.resources :
                  /\ (c \notin DOMAIN objects \/ objects[c].definition # attestations[c])
                  /\ MakeFails(attestations[c])) =>
               (~aspa_last'.result.ok /\ aspa_last'.result.val = <<>>)
        /\ (/\ aspa_last'.op = "renew"
            /\ \E c \in DOMAIN objects :
                  /\ (aspa_last'.arg.threshold = NoneVal
                        \/ objects[c].validity < aspa_last'.arg.threshold)
                  /\ MakeFails(objects[c].definition)) =>
               (~aspa_last'.result.ok /\ aspa_last'.result.val = <<>>)
        /\ (aspa_last'.op \in {"update", "renew"} /\ ~aspa_last'.result.ok) =>
               (objects' = objects /\ attestations' = attestations)
      ]_vars

\* C23: an update has failed on a definition without providers while another
\* object could have been issued, and that definition is still in the set.
C23_Witness ==
    /\ aspa_last.op = "update"
    /\ ~aspa_last.result.ok
    /\ aspa_last.arg.signer_ok
    /\ aspa_last.arg.resources = Customers
    /\ DOMAIN attestations = Customers
    /\ objects = <<>>
    /\ \E c \in Customers : attestations[c].providers = <<>>
    /\ \E c \in Customers : attestations[c].providers # <<>>

\* C24: for a customer in the resources whose held object and current
\* definition list the same providers, update reissues the object when the
\* two lists are in a different order and does not when they are identical.
C24_OrderMatters ==
    UpdateReturned =>
        \A c \in DOMAIN objects \cap DOMAIN attestations \cap aspa_last.arg.resources :
            Range(objects[c].definition.providers) = Range(attestations[c].providers) =>
                Times(UpdatedCustomers, c) =
                    IF objects[c].definition.providers # attestations[c].providers
                    THEN 1 ELSE 0

\* C24: the object for [AS64501, AS64502] is reissued for [AS64502, AS64501].
C24_Witness ==
    /\ UpdateReturned
    /\ \E c \in DOMAIN objects \cap DOMAIN attestations \cap aspa_last.arg.resources :
          /\ objects[c].definition.providers = <<64501, 64502>>
          /\ attestations[c].providers = <<64502, 64501>>
          /\ Times(UpdatedCustomers, c) = 1
          /\ \E i \in DOMAIN Batch.updated :
                Batch.updated[i].definition.providers = <<64502, 64501>>

\* C30: when the batch of a successful update is applied, the Object Set
\* holds exactly the customers that are defined and in the key's resources,
\* each entry under the customer of its definition and with the current
\* definition, and another update with the same definitions and resources
\* returns the empty batch, whatever the iteration order and the signer.
C30_Convergence ==
    [][ (aspa_last'.op = "updated" /\ aspa_last.op = "update") =>
          /\ DOMAIN objects' = DOMAIN attestations \cap aspa_last.arg.resources
          /\ \A c \in DOMAIN objects' :
                /\ AspaInfo_customer(objects'[c]) = c
                /\ objects'[c].definition = attestations[c]
          /\ \A order \in Orders, sn \in [Customers -> Serials], signer_ok \in BOOLEAN :
                update(objects', attestations, aspa_last.arg.resources, order,
                       new_aspa_validity(now), sn, signer_ok)
                  = Ok([updated |-> <<>>, removed |-> <<>>])
      ]_vars

\* C30: a batch that issued one object and withdrew another has been applied
\* and the Object Set agrees with the definitions.
C30_Witness ==
    /\ aspa_last.op = "updated"
    /\ aspa_last.arg.updated # <<>>
    /\ aspa_last.arg.removed # <<>>
    /\ objects # <<>>
    /\ \A c \in DOMAIN objects :
          c \in DOMAIN attestations /\ objects[c].definition = attestations[c]

\* C29 as stated: a session with a lifetime of one second is never reported
\* NeedsRefresh, at any age.
C29_NoRefreshAtOne ==
    (StatusAged /\ login.expires_in = 1) => ~StatusIs("NeedsRefresh")

\* C29 (amended): a session with a lifetime of one second is Active at age 0,
\* NeedsRefresh at age 1 and Expired from age 2 on; it is the session with a
\* lifetime of zero seconds that is never NeedsRefresh (Active at age 0,
\* Expired from age 1 on).
C29_RefreshAtOne ==
    /\ (StatusAged /\ login.expires_in = 1) =>
          StatusIs(IF StatusAge = 0 THEN "Active"
                   ELSE IF StatusAge = 1 THEN "NeedsRefresh" ELSE "Expired")
    /\ (StatusAged /\ login.expires_in = 0) =>
          StatusIs(IF StatusAge = 0 THEN "Active" ELSE "Expired")

\* C29: a session with a lifetime of one second is NeedsRefresh at age 1.
C29_Witness ==
    /\ StatusAged
    /\ login.expires_in = 1
    /\ StatusAge = 1
    /\ StatusIs("NeedsRefresh")

\* The step was a successful decode, on the slow path, of a token that encode
\* had returned and stored and that remove or sweep have taken out since.
MissOfIssued ==
    /\ last'.op = "decode"
    /\ last'.result.ok
    /\ last'.token \in DOMAIN issued
    /\ last'.token \notin DOMAIN cache

\* An entry that a step has stored or replaced belongs to the token of an
\* encode or a decode and has evict_after = the clock value read at the
\* insert + ttl, with ttl 30 or the value given to with_ttl.
InsertsStamped ==
    /\ ttl_secs \in {MAX_CACHE_SECS, TEST_TTL_SECS}
    /\ \A t \in DOMAIN cache' :
          (t \notin DOMAIN cache \/ cache'[t] # cache[t]) =>
              /\ last'.op \in {"encode", "decode"}
              /\ last'.token = t
              /\ last'.T # ClockErr
              /\ cache'[t].evict_after = last'.T + ttl_secs

\* C28 as stated: every insert is stamped with the clock value read at the
\* insert + ttl, and a decode miss on a token that was swept or removed puts
\* it back, with size() one larger.
C28_MissReinserts ==
    [][ /\ InsertsStamped
        /\ MissOfIssued =>
              /\ last'.token \in DOMAIN cache'
              /\ Cardinality(DOMAIN cache') = Cardinality(DOMAIN cache) + 1
      ]_vars

\* C28 (amended): every insert is stamped with the clock value read at the
\* insert + ttl; a decode miss on a token that was swept or removed puts it
\* back with evict_after = that clock value + ttl and size() one larger when
\* the clock can be read at the insert, and leaves the cache as it is when
\* the clock cannot be read.
C28_MissReinsertsClocked ==
    [][ /\ InsertsStamped
        /\ MissOfIssued =>
              IF last'.T # ClockErr
              THEN /\ last'.token \in DOMAIN cache'
                   /\ cache'[last'.token].evict_after = now + ttl_secs
                   /\ Cardinality(DOMAIN cache') = Cardinality(DOMAIN cache) + 1
              ELSE cache' = cache
      ]_vars

\* C28: a decode has put back a token with a later evict_after than the one
\* encode gave it.
C28_Witness ==
    /\ DecodedIssued
    /\ Len(last.trace) = 5
    /\ last.token \in DOMAIN cache
    /\ cache[last.token].evict_after = last.T + ttl_secs
    /\ cache[last.token].evict_after > issued[last.token].clock + ttl_secs

\* The step was an encode that returned a token and could not store it: the
\* lock was poisoned, or the clock could not be read inside the insert.
InsertDropped ==
    /\ last'.op = "encode"
    /\ last'.result.ok
    /\ poisoned \/ last'.trace = <<"encrypt", "cache_session", "clock">>

\* C27: encode fails only when the clock cannot be read (the serializer and
\* the two ciphers never fail); when the insert cannot be done encode returns
\* the token and leaves the cache unchanged, and a later decode of that token
\* under its key that misses the cache returns the same record on the slow
\* path.
C27_EncodeSurvivesInsert ==
    [][ /\ (last'.op = "encode" /\ ~last'.result.ok) =>
              /\ last'.T = ClockErr
              /\ last'.result = Err("Custom", "Unable to determine the current time")
        /\ InsertDropped =>
              /\ cache' = cache
              /\ last'.token \in DOMAIN issued'
              /\ last'.result = Ok(TokenVal(last'.token))
        /\ ( /\ last'.op = "decode"
             /\ last'.token \in DOMAIN issued
             /\ last'.key = issued[last'.token].key
             /\ poisoned \/ last'.token \notin DOMAIN cache ) =>
              /\ last'.trace = <<"lookup", "base64", "decrypt", "from_slice", "cache_session">>
              /\ last'.result = Ok(SessionOf(issued[last'.token]))
      ]_vars

\* C27: encode has returned a token that it could not store because the clock
\* failed inside the insert.
C27_Witness ==
    /\ ~poisoned
    /\ last.op = "encode"
    /\ last.result.ok
    /\ last.trace = <<"encrypt", "cache_session", "clock">>
    /\ last.token \notin DOMAIN cache

\* The lock positions of thread t agree with C25.
CipherOutsideLock(t) ==
    /\ threads[t].pc \in {"start_time", "seal", "slow"} => threads[t].holds = "none"
    /\ threads[t].op \in {"encode", "decode"} =>
         /\ threads[t].holds = "write" => threads[t].pc = "cache_session"
         /\ threads[t].holds = "read" => threads[t].pc = "lookup"

\* The step of thread t that follows the write lock of its encode or decode
\* reads the clock, inserts the entry or nothing, and gives the lock back.
InsertOnly(t) ==
    (threads[t].op \in {"encode", "decode"} /\ threads[t].holds = "write") =>
        \/ threads'[t] = threads[t]
        \/ /\ threads'[t].holds = "none"
           /\ \/ cache' = cache
              \/ cache' = Insert(cache, threads[t].token,
                                 [evict_after |-> now + ttl_secs, session |-> threads[t].session[1]])

\* C25: with threads running encode and decode concurrently, a thread that
\* serializes, encrypts, decrypts or deserializes holds neither the read nor
\* the write lock, and the one step encode and decode take under the write
\* lock reads the clock and inserts the entry.
C25_CryptoOutsideLock ==
    [][ \A t \in Threads : CipherOutsideLock(t)' /\ InsertOnly(t) ]_vars

\* C25: one thread is decrypting a token while another holds the write lock
\* for the insert of its encode.
C25_Witness ==
    \E t \in Threads, u \in Threads :
        /\ threads[t].pc = "slow"
        /\ threads[u].op = "encode"
        /\ threads[u].pc = "cache_session"
        /\ threads[u].holds = "write"

\* A thread that holds the write lock is the only one that holds the lock.
WriterAlone ==
    \A t \in Threads : threads[t].holds = "write" =>
        \A u \in Threads \ {t} : threads[u].holds = "none"

\* While thread t holds the write lock of its sweep, only its retain changes
\* the cache, and the retain drops exactly the entries with evict_after <= the
\* clock value the sweep read.
SweepAlone(t) ==
    (threads[t].op = "sweep" /\ threads[t].holds = "write") =>
        \/ cache' = cache
        \/ /\ threads[t].pc = "retain"
           /\ threads'[t] = Idle
           /\ \A u \in Threads \ {t} : threads'[u] = threads[u]
           /\ DOMAIN cache' = {k \in DOMAIN cache : cache[k].evict_after > threads[t].T}
           /\ \A k \in DOMAIN cache' : cache'[k] = cache[k]

\* C26: sweep is atomic with respect to concurrent inserts and removes: no
\* insert or remove changes the cache between the sweep's acquisition of the
\* write lock and the end of its retain, and the retain keeps every entry
\* whose evict_after is greater than the time the sweep read.
C26_SweepAtomic ==
    [][ WriterAlone' /\ \A t \in Threads : SweepAlone(t) ]_vars

\* C26: a sweep has read the clock and is about to retain while another
\* thread waits for the write lock to insert an entry that this sweep would
\* keep.
C26_Witness ==
    \E t \in Threads, u \in Threads :
        /\ threads[t].pc = "retain"
        /\ threads[u].pc = "cache_wait"
        /\ now > threads[t].T

\* The step applies, with updated, the batch a renew has just returned.
RenewApplied ==
    /\ aspa_last.op = "renew"
    /\ aspa_last.result.ok
    /\ aspa_last'.op = "updated"

\* C31: applying the batch of a successful renew with updated leaves the set
\* of customers of the Object Set and the definition embedded in every entry
\* unchanged (so only validity and serial of a renewed entry change), and
\* leaves the entries the renew did not select as they were.
C31_RenewFrame ==
    [][ RenewApplied =>
          /\ DOMAIN objects' = DOMAIN objects
          /\ \A c \in DOMAIN objects :
                /\ objects'[c].definition = objects[c].definition
                /\ Times(UpdatedCustomers, c) = 0 => objects'[c] = objects[c]
                /\ Times(UpdatedCustomers, c) > 0 =>
                      \E i \in DOMAIN Batch.updated : objects'[c] = Batch.updated[i]
      ]_vars

\* C31: a batch that renews one of two held objects has been applied: the
\* renewed entry embeds a definition that is no longer the customer's current
\* one (so the batch is a renew's) and expires later than the other entry.
C31_Witness ==
    /\ aspa_last.op = "updated"
    /\ Len(aspa_last.arg.updated) = 1
    /\ aspa_last.arg.removed = <<>>
    /\ Cardinality(DOMAIN objects) = 2
    /\ \E c \in DOMAIN objects :
          /\ objects[c] = aspa_last.arg.updated[1]
          /\ (c \notin DOMAIN attestations \/ attestations[c] # objects[c].definition)
          /\ \E d \in DOMAIN objects \ {c} : objects[d].validity < objects[c].validity

\* C32: once remove(t) has returned, t stays absent from the cache until an
\* encode or decode invoked after the remove returned inserts it: the insert
\* of a decode of t that was under way when remove(t) returned does not put t
\* back.
C32_RemovedStaysOut ==
    [][ \A u \in Threads :
          (/\ threads[u].pc = "cache_session"
           /\ threads[u].raced
           /\ threads[u].token \notin DOMAIN cache) =>
              threads[u].token \notin DOMAIN cache'
      ]_vars

\* C32: a decode that was under way when remove of its token returned has
\* returned after putting the token back in the cache.
C32_Witness ==
    \E u \in Threads :
        /\ threads[u].pc = "idle"
        /\ threads[u].raced
        /\ threads[u].token \in DOMAIN cache

\* The step was a decode of a token encode returned, under the key it was
\* encoded with.
DecodesOwn ==
    /\ last'.op = "decode"
    /\ last'.token \in DOMAIN issued
    /\ last'.key = issued[last'.token].key

\* C33: decode(t, k) of a token t that encode produced under k returns the
\* record encode built in every cache state, whether t is cached, was never
\* stored, was removed or was swept; the cache decides only whether the decrypt
\* function is called: a readable entry for t is returned after the lookup
\* alone, and without one the record comes from base64, decrypt and from_slice.
C33_Transparent ==
    [][ DecodesOwn =>
          /\ last'.result = Ok(SessionOf(issued[last'.token]))
          /\ last'.trace = IF last'.token \in DOMAIN cache /\ ~poisoned
                           THEN Hit
                           ELSE <<"lookup", "base64", "decrypt", "from_slice", "cache_session">>
      ]_vars

\* C33: a token that is cached again after a miss at a later second than its
\* encode has been decoded from the cache.
C33_Witness ==
    /\ DecodedIssued
    /\ last.key = issued[last.token].key
    /\ last.trace = Hit
    /\ last.result = Ok(SessionOf(issued[last.token]))
    /\ cache[last.token].evict_after > issued[last.token].clock + ttl_secs

\* C34: a decode that fails, on malformed base64, on a token that is too
\* short, on an error of the decrypt function or on the deserialization, has
\* stopped before cache_session and leaves the cache unchanged: no entry is
\* inserted, removed or modified and size() is the same.
C34_FailedDecodeFrame ==
    [][ (last'.op = "decode" /\ ~last'.result.ok) =>
          /\ cache' = cache
          /\ Cardinality(DOMAIN cache') = Cardinality(DOMAIN cache)
          /\ last'.trace \in { <<"lookup", "base64">>,
                               <<"lookup", "base64", "decrypt">>,
                               <<"lookup", "base64", "decrypt", "from_slice">> }
      ]_vars

\* C34: a decode has failed at the deserialization while the cache holds an
\* entry that a sweep at this time would drop.
C34_Witness ==
    /\ last.op = "decode"
    /\ ~last.result.ok
    /\ last.trace = <<"lookup", "base64", "decrypt", "from_slice">>
    /\ \E t \in DOMAIN cache : cache[t].evict_after <= now

\* C35: status() is total: for every session record with a lifetime and every
\* clock value, also one earlier than the record's start_time, the age
\* now - start_time is computed without underflow and status() returns one of
\* Active, NeedsRefresh, Expired.
C35_StatusTotal ==
    (last.op = "status" /\ login.expires_in # NoneVal /\ last.T # ClockErr) =>
        /\ last.result.ok
        /\ last.result.val[1].status \in {"Active", "NeedsRefresh", "Expired"}
        /\ wrapping_sub(last.T, login.start_time) = last.T - login.start_time

\* C35: status() has panicked on a record whose start_time is later than the
\* clock value it read.
C35_Witness ==
    /\ last.op = "status"
    /\ login.expires_in # NoneVal
    /\ last.T # ClockErr
    /\ last.T < login.start_time
    /\ last.result = Err("Panic", "attempt to subtract with overflow")

\* A thread outside an operation holds no lock and is not queued for one, a
\* thread holds the lock only at the steps done under it, and whenever some
\* thread is inside an operation some thread can take a step.
ReleasedOnReturn ==
    /\ \A t \in Threads :
          /\ threads[t].pc = "idle" => (threads[t].holds = "none" /\ threads[t].ticket = 0)
          /\ threads[t].holds # "none" <=>
                threads[t].pc \in {"lookup", "size", "cache_session", "remove",
                                   "sweep_clock", "retain"}
    /\ (\E t \in Threads : threads[t].pc # "idle") =>
          \E t \in Threads : ENABLED (Enqueue(t) \/ FairAcquire(t) \/ Work(t))

\* C36: with threads calling encode, decode, remove, size and sweep on a fair
\* readers-writer lock, every operation terminates: an operation holds the
\* lock only between one acquisition and its release, has released it when it
\* returns, on its error paths too, no state is a deadlock, and every thread
\* that is inside an operation returns from it.
C36_Terminates ==
    /\ []ReleasedOnReturn
    /\ \A t \in Threads : (threads[t].pc # "idle") ~> (threads[t].pc = "idle")

\* C36: all three threads are inside an operation, one holding the write lock
\* and two queued behind it.
C36_Witness ==
    /\ \A t \in Threads : threads[t].pc # "idle"
    /\ \E t \in Threads : threads[t].holds = "write"
    /\ \E t \in Threads, u \in Threads : threads[t].ticket = 1 /\ threads[u].ticket = 2

====
